---------------------------- MODULE Spec2Model ----------------------------
(***************************************************************************)
(* RedInk backend: the history store (HistoryService) and the image        *)
(* orchestrator (ImageService) as state machines.                          *)
(*                                                                         *)
(* A directory is the map from the file names it holds to their content;   *)
(* the content of an image file names the task and the flow that produced  *)
(* it, so that a misrouted write or an overwrite is visible.               *)
(* An await is a step boundary; a yield is not: the for-await loop of the  *)
(* route writes the event and resumes the generator in the same microtask  *)
(* chain, so the code between two awaits is one action.                    *)
(***************************************************************************)
EXTENDS Integers, Sequences, FiniteSets, TLC

\* ------------------------------------------------------------------ bounds
MaxPages == 3      \* longest page list submitted to a flow
MaxFlows == 2      \* flows (requests) served in one behaviour of SpecSeq
MaxSeqPages == 2   \* longest page list submitted in SpecSeq and SpecConc
MaxOps == 3        \* history mutations in one behaviour of SpecHist
MaxRecords == 2    \* records created in one behaviour
MaxText == 5       \* tokens of an outline text
MaxFanPages == 17  \* longest page list of the fan-out specification

\* ------------------------------------------------------- program constants
AUTO_RETRY_COUNT == 3
MAX_CONCURRENT == 15

\* ------------------------------------------------------------- value sets
Undef == "undefined"
Null == "null"
NoRec == 0         \* recordId absent (undefined / null)
NoIdx == -1        \* an event without an index field

TaskIds == {"t1", "t2"}
Procs == {1, 2}

\* `${index}.png` and `thumb_${filename}`
PngNames == <<"0.png", "1.png", "2.png", "3.png", "4.png", "5.png">>
Png(i) == PngNames[i + 1]
Thumb(i) == <<"thumb_0.png", "thumb_1.png", "thumb_2.png", "thumb_3.png",
              "thumb_4.png", "thumb_5.png">>[i + 1]

\* A Buffer holding an image: the task and the flow that produced it.
NoImage == [task |-> "none", flow |-> "none", compressed |-> FALSE]
Image(t, f) == [task |-> t, flow |-> f, compressed |-> FALSE]
\* compressImage: a buffer within the byte budget is returned as it is, a
\* larger one is re-encoded; provider images are taken to exceed the budget
compressImage(img) == [img EXCEPT !.compressed = TRUE]

\* JavaScript truthiness of a string-valued field.
Truthy(v) == v \notin {Undef, Null, ""}

\* ----------------------------------------------------------- state
VARIABLES
  index,          \* history/index.json: sequence of HistoryIndexRecord
  recordFiles,    \* history/<id>.json: the ids in DOMAIN are the files that exist
  nextId,         \* the next uuid createRecord hands out
  clock,          \* the value of new Date() at the next mutation
  taskDirs,       \* history/<taskId>/: DOMAIN = directories that exist,
                  \* each a map from the file names present to their content
  currentTaskDir, \* ImageService.currentTaskDir (shared by all flows)
  taskStates,     \* ImageService.taskStates: DOMAIN = tasks with a TaskState
  highConcurrency,\* providerConfig.high_concurrency
  pc,             \* per flow: the await it is suspended at
  loc,            \* per flow: the local variables of the generator
  gsi,            \* per flow and page: the _generateSingleImage call
  events,         \* per flow: the events yielded so far
  prior,          \* per flow (history variable): what the file of the page
                  \* of a single-page flow held when the flow was entered
  budget,         \* number of flows that may still be started
  res,            \* per flow: the HTTP response of the route that runs it
  outlineText,    \* OutlineService: the outline text received, as tokens
  outlinePages,   \* OutlineService: the pages _parseOutline made of it
  outlineSuccess, \* OutlineService: the success field generateOutline returned
  lastCall,       \* (history variable) the last HistoryService call of a
                  \* history route: its arguments and its return value
  stream,         \* one generateViaChatApi call: the response stream, its
                  \* listeners and the promise the call returns
  textCall,       \* one TextChatClient.generateText call through retryOn429
  configFiles,    \* image_providers.yaml and text_providers.yaml: DOMAIN =
                  \* the files that exist
  configResponse, \* (history variable) the config object of the last GET /config
  generator       \* the last ImageGeneratorFactory.create call and what it gave

vars == <<index, recordFiles, nextId, clock, taskDirs, currentTaskDir,
          taskStates, highConcurrency, pc, loc, gsi, events, prior, budget, res,
          outlineText, outlinePages, outlineSuccess, lastCall, stream, textCall,
          configFiles, configResponse, generator>>

histVars == <<index, recordFiles, nextId, clock>>
svcVars == <<currentTaskDir, taskStates, highConcurrency, pc, loc, gsi,
             events, prior, budget, res>>
textVars == <<outlineText, outlinePages, outlineSuccess>>
\* no HistoryService call yet
NoCall == [op |-> "none", id |-> 0, ok |-> FALSE, topic |-> "", outline |-> <<>>,
           taskId |-> "", removed |-> {}, no_record |-> FALSE, images |-> <<>>,
           status |-> "", total_tasks |-> 0, synced |-> 0, failed |-> 0,
           orphan_tasks |-> <<>>, dirs |-> {}]
clientVars == <<stream, textCall, configFiles, configResponse, generator>>
AuxInit ==
  /\ outlineText = <<>>
  /\ outlinePages = <<>>
  /\ lastCall = NoCall
  \* no generateViaChatApi call yet
  /\ stream = [phase |-> "idle", chunkCount |-> 0, buffer |-> "", listening |-> FALSE,
               promise |-> "none", reason |-> "", download |-> "none",
               stopCarried |-> FALSE]
  \* no generateText call yet
  /\ textCall = [st |-> "idle", attempt |-> 0, responses |-> <<>>, waits |-> <<>>]
  /\ outlineSuccess = "none"
  /\ res = [p \in Procs |-> "none"]
  \* image_providers.yaml names a usable provider (the ImageService was
  \* constructed from it); text_providers.yaml does not exist
  /\ configFiles = [k \in {"image_generation"} |->
                      [active_provider |-> "google_genai",
                       providers |-> [n \in {"google_genai"} |->
                                       [api_key |-> <<"s", "k", "-", "1", "2", "3", "4", "5", "6">>,
                                        api_key_masked |-> <<Undef>>,
                                        api_key_env |-> <<Undef>>]]]]
  /\ configResponse = [k \in {} |-> Null]
  /\ generator = [provider |-> "", api_key |-> <<Undef>>, base_url |-> <<Undef>>,
                  endpoint_type |-> <<Undef>>, class |-> "none", baseUrl |-> <<Undef>>,
                  endpointType |-> <<Undef>>, thrown |-> "", called |-> FALSE]

\* ------------------------------------------------------------- helpers
RECURSIVE SeqToSet(_)
SeqToSet(s) == IF s = <<>> THEN {} ELSE {Head(s)} \cup SeqToSet(Tail(s))

\* f with key k bound to v (k may be new)
Put(f, k, v) == [x \in DOMAIN f \cup {k} |-> IF x = k THEN v ELSE f[x]]
\* f without key k
Del(f, k) == [x \in DOMAIN f \ {k} |-> f[x]]
EmptyMap == [x \in {} |-> Null]

\* Array.prototype.find on the index: position of the first entry with id.
RECURSIVE FindPos(_, _, _)
FindPos(s, id, i) ==
  IF i > Len(s) THEN 0
  ELSE IF s[i].id = id THEN i ELSE FindPos(s, id, i + 1)

\* Array.prototype.filter(r => r.id !== id)
RECURSIVE FilterOut(_, _)
FilterOut(s, id) ==
  IF s = <<>> THEN <<>>
  ELSE IF Head(s).id = id THEN FilterOut(Tail(s), id)
       ELSE <<Head(s)>> \o FilterOut(Tail(s), id)

\* arr[i] = v on a JavaScript array (zero-based i): holes are left before
\* i when i is beyond the end; JSON.stringify writes a hole as null.
ArraySet(arr, i, v) ==
  [k \in 1 .. (IF i + 1 > Len(arr) THEN i + 1 ELSE Len(arr)) |->
     IF k = i + 1 THEN v ELSE IF k <= Len(arr) THEN arr[k] ELSE Null]

\* ============================================================ HistoryService
\* outline.pages?.length || 0 ; an outline is modelled by its pages list
PageCount(outline) == Len(outline)

\* The store the operators below transform.
Store == [index |-> index, files |-> recordFiles]

\* getRecord: the file exists (the method returns null otherwise)
hasRecord(st, recordId) == recordId \in DOMAIN st.files
getRecord(st, recordId) == st.files[recordId]

\* createRecord that pushes the index entry instead of unshifting it
createRecord_Push(st, recordId, now, topic, outline, taskId) ==
  LET record == [id |-> recordId, title |-> topic, created_at |-> now,
                 updated_at |-> now, outline |-> outline,
                 images |-> [task_id |-> IF Truthy(taskId) THEN taskId ELSE Null,
                             generated |-> <<>>],
                 status |-> "draft", thumbnail |-> Null]
      entry == [id |-> recordId, title |-> topic, created_at |-> now,
                updated_at |-> now, status |-> "draft", thumbnail |-> Null,
                page_count |-> PageCount(outline),
                task_id |-> IF Truthy(taskId) THEN taskId ELSE Null]
  IN [index |-> st.index \o <<entry>>,
      files |-> Put(st.files, recordId, record)]

createRecord(st, recordId, now, topic, outline, taskId) ==
  LET record == [id |-> recordId, title |-> topic, created_at |-> now,
                 updated_at |-> now, outline |-> outline,
                 images |-> [task_id |-> IF Truthy(taskId) THEN taskId ELSE Null,
                             generated |-> <<>>],
                 status |-> "draft", thumbnail |-> Null]
      entry == [id |-> recordId, title |-> topic, created_at |-> now,
                updated_at |-> now, status |-> "draft", thumbnail |-> Null,
                page_count |-> PageCount(outline),
                task_id |-> IF Truthy(taskId) THEN taskId ELSE Null]
  IN [index |-> <<entry>> \o st.index,
      files |-> Put(st.files, recordId, record)]

\* An updates object is a record holding only the keys that are present:
\* updates.k !== undefined is "k" \in DOMAIN updates.
Has(updates, k) == k \in DOMAIN updates

\* the patch updateRecord applies to the matching index entry
UpdateIndexEntry(e, updates, now) ==
  [e EXCEPT
     !.updated_at = now,
     !.status = IF Has(updates, "status") /\ Truthy(updates.status)
                THEN updates.status ELSE @,
     !.thumbnail = IF Has(updates, "thumbnail") /\ Truthy(updates.thumbnail)
                   THEN updates.thumbnail ELSE @,
     !.page_count = IF Has(updates, "outline") THEN PageCount(updates.outline) ELSE @,
     !.task_id = IF Has(updates, "images") /\ Truthy(updates.images.task_id)
                 THEN updates.images.task_id ELSE @]

\* the patch updateRecord applies to the detail record
UpdateDetail(r, updates, now) ==
  [r EXCEPT
     !.updated_at = now,
     !.outline = IF Has(updates, "outline") THEN updates.outline ELSE @,
     !.images = IF Has(updates, "images") THEN updates.images ELSE @,
     !.status = IF Has(updates, "status") THEN updates.status ELSE @,
     !.thumbnail = IF Has(updates, "thumbnail") THEN updates.thumbnail ELSE @]

updateRecord(st, recordId, now, updates) ==
  LET pos == FindPos(st.index, recordId, 1)
  IN IF ~hasRecord(st, recordId) THEN st
     ELSE [index |-> IF pos = 0 THEN st.index
                     ELSE [st.index EXCEPT ![pos] = UpdateIndexEntry(@, updates, now)],
           files |-> [st.files EXCEPT ![recordId] =
                        UpdateDetail(getRecord(st, recordId), updates, now)]]

\* the task directories deleteRecord removes
DeleteTaskDirs(st, recordId) ==
  IF hasRecord(st, recordId) /\ Truthy(getRecord(st, recordId).images.task_id)
  THEN {getRecord(st, recordId).images.task_id} ELSE {}

\* deleteRecord that leaves the index as it is
deleteRecord_KeepIndex(st, recordId) ==
  IF ~hasRecord(st, recordId) THEN st
  ELSE [index |-> st.index,
        files |-> Del(st.files, recordId)]

deleteRecord(st, recordId) ==
  IF ~hasRecord(st, recordId) THEN st
  ELSE [index |-> FilterOut(st.index, recordId),
        files |-> Del(st.files, recordId)]

\* records.slice(start, end) with zero-based start and exclusive end
slice(arr, start, end) ==
  LET hi == IF end > Len(arr) THEN Len(arr) ELSE end
  IN IF start >= hi THEN <<>> ELSE SubSeq(arr, start + 1, hi)

RECURSIVE filterStatus(_, _)
filterStatus(records, status) ==
  IF records = <<>> THEN <<>>
  ELSE IF Head(records).status = status
       THEN <<Head(records)>> \o filterStatus(Tail(records), status)
       ELSE filterStatus(Tail(records), status)

\* listRecords(page, pageSize, status).records
listRecords(st, page, pageSize, status) ==
  LET records == IF Truthy(status) THEN filterStatus(st.index, status) ELSE st.index
  IN slice(records, (page - 1) * pageSize, (page - 1) * pageSize + pageSize)

\* String.prototype.toLowerCase on the titles and keywords used
toLowerCase(str) == IF str = "T" THEN "t" ELSE str

\* title.toLowerCase().includes(keywordLower): the titles and keywords used
\* are one word or empty, so includes is equality or the empty keyword
RECURSIVE filterTitle(_, _)
filterTitle(records, keywordLower) ==
  IF records = <<>> THEN <<>>
  ELSE IF keywordLower = "" \/ keywordLower = toLowerCase(Head(records).title)
       THEN <<Head(records)>> \o filterTitle(Tail(records), keywordLower)
       ELSE filterTitle(Tail(records), keywordLower)

searchRecords(st, keyword) == filterTitle(st.index, toLowerCase(keyword))

\* the image files of a task directory, thumbnails excluded, sorted by the
\* number before the dot
RECURSIVE imageFilesFrom(_, _)
imageFilesFrom(dir, i) ==
  IF i >= Len(PngNames) THEN <<>>
  ELSE (IF Png(i) \in DOMAIN dir THEN <<Png(i)>> ELSE <<>>) \o imageFilesFrom(dir, i + 1)
imageFiles(dir) == imageFilesFrom(dir, 0)

\* the first record, in index order, whose detail names the task
RECURSIVE findRecordOfTask(_, _, _)
findRecordOfTask(st, taskId, i) ==
  IF i > Len(st.index) THEN NoRec
  ELSE IF hasRecord(st, st.index[i].id)
          /\ getRecord(st, st.index[i].id).images.task_id = taskId
       THEN st.index[i].id
       ELSE findRecordOfTask(st, taskId, i + 1)

\* scanAndSyncTaskImages: the store it leaves and the result it returns
scanAndSyncTaskImages(st, dirs, taskId, now) ==
  IF taskId \notin DOMAIN dirs
  THEN [st |-> st, success |-> FALSE, no_record |-> FALSE, record_id |-> NoRec,
        images |-> <<>>, status |-> ""]
  ELSE LET files == imageFiles(dirs[taskId])
           recordId == findRecordOfTask(st, taskId, 1)
       IN IF recordId # NoRec
          THEN LET expectedCount == PageCount(getRecord(st, recordId).outline)
                   status == IF Len(files) = 0 THEN "draft"
                             ELSE IF Len(files) >= expectedCount THEN "completed"
                             ELSE "partial"
                   updates == [images |-> [task_id |-> taskId, generated |-> files],
                               status |-> status]
                              @@ (IF Len(files) > 0 THEN [thumbnail |-> files[1]]
                                  ELSE EmptyMap)
               IN [st |-> updateRecord(st, recordId, now, updates), success |-> TRUE,
                   no_record |-> FALSE, record_id |-> recordId, images |-> files,
                   status |-> status]
          ELSE [st |-> st, success |-> TRUE, no_record |-> TRUE, record_id |-> NoRec,
                images |-> files, status |-> ""]

\* classify that counts a directory without record as synced too
classify_OrphanSynced(acc, taskId, r) ==
  [acc EXCEPT
     !.total_tasks = @ + 1,
     !.synced = IF r.success THEN @ + 1 ELSE @,
     !.failed = IF ~r.success THEN @ + 1 ELSE @,
     !.orphan_tasks = IF r.success /\ r.no_record THEN Append(@, taskId) ELSE @]

\* the body of the scanAllTasks loop after the scan of one directory
classify(acc, taskId, r) ==
  [acc EXCEPT
     !.total_tasks = @ + 1,
     !.synced = IF r.success /\ ~r.no_record THEN @ + 1 ELSE @,
     !.failed = IF ~r.success THEN @ + 1 ELSE @,
     !.orphan_tasks = IF r.success /\ r.no_record THEN Append(@, taskId) ELSE @]

\* scanAllTasks: the loop over the directories of history/, in the order
\* readdirSync lists them; acc is the result built so far
RECURSIVE scanAllFrom(_, _, _, _, _)
scanAllFrom(st, dirs, items, now, acc) ==
  IF items = <<>> THEN [st |-> st, result |-> acc]
  ELSE LET r == scanAndSyncTaskImages(st, dirs, Head(items), now)
       IN scanAllFrom(r.st, dirs, Tail(items), now, classify(acc, Head(items), r))

\* readdirSync(historyDir) restricted to directories: sorted by name
readdirSync(dirs) ==
  (IF "t1" \in DOMAIN dirs THEN <<"t1">> ELSE <<>>)
  \o (IF "t2" \in DOMAIN dirs THEN <<"t2">> ELSE <<>>)

scanAllTasks(st, dirs, now) ==
  scanAllFrom(st, dirs, readdirSync(dirs), now,
              [total_tasks |-> 0, synced |-> 0, failed |-> 0, orphan_tasks |-> <<>>])

\* ============================================================== ImageService
\* A page list of a request: index = position, zero-based (the numbering
\* _parseOutline gives an outline without empty segments).
Pages(types) == [k \in 1 .. Len(types) |-> [index |-> k - 1, type |-> types[k]]]

RECURSIVE TypeLists(_)
TypeLists(n) ==
  IF n = 0 THEN {<<>>}
  ELSE TypeLists(n - 1) \cup
       {Append(s, t) : s \in {x \in TypeLists(n - 1) : Len(x) = n - 1}, t \in {"cover", "content", "summary"}}

PageLists == {Pages(ts) : ts \in TypeLists(MaxPages)}

\* The state of one _generateSingleImage call.
IdleCall == [st |-> "idle", attempt |-> 0, calls |-> 0, refs |-> {},
             waits |-> <<>>, dir |-> "", fullOutline |-> "", userTopic |-> ""]
IdleCalls == [k \in 1 .. MaxPages |-> IdleCall]

\* The locals of a flow that is not running.
IdleLoc == [flow |-> "none", taskId |-> "", recordId |-> NoRec, pages |-> <<>>,
            coverPage |-> 0, otherPages |-> <<>>, generatedImages |-> <<>>,
            failedPages |-> <<>>, coverImageData |-> NoImage, cur |-> 0,
            referenceImage |-> NoImage, useReference |-> FALSE, epoch |-> 0,
            fullOutline |-> "", userTopic |-> "",
            successCount |-> 0, failedCount |-> 0]

\* The history variable of a flow that is not a single-page flow.
NoPrior == [image |-> NoImage, generated |-> FALSE]

\* What one flow sees and changes between two awaits.
Ctx(p) == [l |-> loc[p], ev |-> events[p], g |-> gsi[p], pc |-> pc[p],
           st |-> Store, clk |-> clock, ts |-> taskStates,
           dirs |-> taskDirs, ctd |-> currentTaskDir, prior |-> prior[p]]

Commit(p, c) ==
  /\ loc' = [loc EXCEPT ![p] = c.l]
  /\ events' = [events EXCEPT ![p] = c.ev]
  /\ gsi' = [gsi EXCEPT ![p] = c.g]
  /\ pc' = [pc EXCEPT ![p] = c.pc]
  /\ index' = c.st.index
  /\ recordFiles' = c.st.files
  /\ clock' = c.clk
  /\ taskStates' = c.ts
  /\ taskDirs' = c.dirs
  /\ currentTaskDir' = c.ctd
  /\ prior' = [prior EXCEPT ![p] = c.prior]
  \* the route: res.write per event, res.end() after the generator's last
  \* event; in the catch block a JSON answer only if nothing was written yet
  /\ res' = [res EXCEPT ![p] = IF c.pc = "done" THEN "ended"
                               ELSE IF c.ev # <<>> THEN "streaming"
                               ELSE IF c.pc = "thrown" THEN "json" ELSE "open"]
  /\ UNCHANGED <<textVars, lastCall, clientVars>>

\* yield of a page event / of the batch_start event
PageEvent(e, i, ph) == [event |-> e, index |-> i, phase |-> ph]
Emit(c, e) == [c EXCEPT !.ev = Append(@, e)]

\* historyService.updateRecord(recordId, updates) inside a flow
Update(c, updates) ==
  IF hasRecord(c.st, c.l.recordId)
  THEN [c EXCEPT !.st = updateRecord(@, c.l.recordId, c.clk, updates), !.clk = @ + 1]
  ELSE c

\* fs.existsSync + fs.mkdirSync(dir, {recursive: true})
Mkdir(dirs, t) == IF t \in DOMAIN dirs THEN dirs ELSE Put(dirs, t, EmptyMap)

\* ---------------------------------------------------- _generateSingleImage
\* entry of the method up to the first provider call
GsiStart(c, k, ref) ==
  [c EXCEPT !.g[k] = [st |-> "calling", attempt |-> 0, calls |-> 1,
                      refs |-> {ref}, waits |-> <<>>, dir |-> "",
                      fullOutline |-> c.l.fullOutline, userTopic |-> c.l.userTopic]]

Pow2(n) == IF n = 0 THEN 1 ELSE IF n = 1 THEN 2 ELSE IF n = 2 THEN 4 ELSE 8

\* GsiCatch with the attempt ceiling off by one
GsiCatch_OffByOne(call) ==
  IF call.attempt < AUTO_RETRY_COUNT
  THEN [call EXCEPT !.st = "backoff", !.waits = Append(@, Pow2(call.attempt))]
  ELSE [call EXCEPT !.st = "fail"]

\* the catch block of an attempt
GsiCatch(call) ==
  IF call.attempt < AUTO_RETRY_COUNT - 1
  THEN [call EXCEPT !.st = "backoff", !.waits = Append(@, Pow2(call.attempt))]
  ELSE [call EXCEPT !.st = "fail"]

\* the provider resolved: _saveImage writes the original into the directory
\* this.currentTaskDir names now, then awaits the thumbnail compression
GsiSaveOriginal(c, k) ==
  IF c.ctd \in DOMAIN c.dirs
  THEN [c EXCEPT !.dirs[c.ctd] = Put(@, Png(c.l.pages[k].index),
                                        Image(c.l.taskId, c.l.flow)),
                 !.g[k].st = "thumb", !.g[k].dir = c.ctd]
  ELSE [c EXCEPT !.g[k] = GsiCatch(@)]

\* the compression resolved: _saveImage writes the thumbnail and returns
GsiSaveThumb(c, k) ==
  IF c.g[k].dir \in DOMAIN c.dirs
  THEN [c EXCEPT !.dirs[c.g[k].dir] = Put(@, Thumb(c.l.pages[k].index),
                                             compressImage(Image(c.l.taskId, c.l.flow))),
                 !.g[k].st = "ok"]
  ELSE [c EXCEPT !.g[k] = GsiCatch(@)]

Returned(call) == call.st \in {"ok", "fail"}

\* ---------------------------------------------------------- generateImages
\* the cover/others partition: positions in the page list
RECURSIVE LastCover(_, _)
LastCover(pages, k) ==
  IF k = 0 THEN 0
  ELSE IF pages[k].type = "cover" THEN k ELSE LastCover(pages, k - 1)

RECURSIVE NonCover(_, _)
NonCover(pages, k) ==
  IF k > Len(pages) THEN <<>>
  ELSE IF pages[k].type = "cover" THEN NonCover(pages, k + 1)
       ELSE <<k>> \o NonCover(pages, k + 1)

\* the finish event
FinishEvent(l) ==
  [event |-> "finish", index |-> NoIdx, phase |-> "none",
   success |-> (Len(l.failedPages) = 0), total |-> Len(l.pages),
   completed |-> Len(l.generatedImages), failed |-> Len(l.failedPages),
   failed_indices |-> [k \in 1 .. Len(l.failedPages) |-> l.pages[l.failedPages[k]].index]]

\* GenFinish that keeps what the record lists besides the run's own files
GenFinish_Merge(c) ==
  LET old == getRecord(c.st, c.l.recordId).images.generated
      c1 == IF c.l.recordId # NoRec
            THEN Update(c, [status |-> IF Len(c.l.failedPages) = 0 THEN "completed"
                                       ELSE IF Len(c.l.generatedImages) > 0
                                            THEN "partial" ELSE "draft",
                            images |-> [task_id |-> c.l.taskId,
                                        generated |->
                                          c.l.generatedImages \o
                                          SelectSeq(old, LAMBDA f :
                                                      \A k \in DOMAIN c.l.generatedImages :
                                                        c.l.generatedImages[k] # f)]])
            ELSE c
  IN [Emit(c1, FinishEvent(c.l)) EXCEPT !.pc = "done"]

GenFinish(c) ==
  LET c1 == IF c.l.recordId # NoRec
            THEN Update(c, [status |-> IF Len(c.l.failedPages) = 0 THEN "completed"
                                       ELSE IF Len(c.l.generatedImages) > 0
                                            THEN "partial" ELSE "draft",
                            images |-> [task_id |-> c.l.taskId,
                                        generated |-> c.l.generatedImages]])
            ELSE c
  IN [Emit(c1, FinishEvent(c.l)) EXCEPT !.pc = "done"]

\* sequential mode: the progress event of the next page and its call
SeqNext(c) ==
  IF c.l.cur > Len(c.l.otherPages) THEN GenFinish(c)
  ELSE LET k == c.l.otherPages[c.l.cur]
       IN [GsiStart(Emit(c, PageEvent("progress", c.l.pages[k].index, "content")),
                    k, c.l.coverImageData)
           EXCEPT !.pc = "seq"]

\* what both modes do with the result of a content page
ContentResult(c, k) ==
  LET page == c.l.pages[k]
  IN IF c.g[k].st = "ok"
     THEN LET a == [c EXCEPT !.l.generatedImages = Append(@, Png(page.index)),
                             !.ts[c.l.taskId].generated = Put(@, page.index, Png(page.index))]
              b == IF c.l.recordId # NoRec
                   THEN Update(a, [images |-> [task_id |-> c.l.taskId,
                                               generated |-> a.l.generatedImages]])
                   ELSE a
          IN Emit(b, PageEvent("complete", page.index, "content"))
     ELSE Emit([c EXCEPT !.l.failedPages = Append(@, k),
                         !.ts[c.l.taskId].failed = Put(@, page.index, "error")],
               PageEvent("error", page.index, "content"))

\* high-concurrency mode: a progress event per page, then all calls at once
RECURSIVE BatchProgress(_, _)
BatchProgress(c, i) ==
  IF i > Len(c.l.otherPages) THEN c
  ELSE BatchProgress(Emit(c, PageEvent("progress",
                                       c.l.pages[c.l.otherPages[i]].index, "content")),
                     i + 1)

RECURSIVE BatchStart(_, _)
BatchStart(c, i) ==
  IF i > Len(c.l.otherPages) THEN c
  ELSE BatchStart(GsiStart(c, c.l.otherPages[i], c.l.coverImageData), i + 1)

RECURSIVE BatchResults(_, _)
BatchResults(c, i) ==
  IF i > Len(c.l.otherPages) THEN c
  ELSE BatchResults(ContentResult(c, c.l.otherPages[i]), i + 1)

\* GenContent that starts all content calls at once in both modes
GenContent_AllAtOnce(c, hc) ==
  IF Len(c.l.otherPages) = 0 THEN GenFinish(c)
  ELSE LET c1 == Emit(c, PageEvent("progress", NoIdx, "content"))
       IN [BatchStart(BatchProgress(c1, 1), 1) EXCEPT !.pc = "batch"]

\* second phase
GenContent(c, hc) ==
  IF Len(c.l.otherPages) = 0 THEN GenFinish(c)
  ELSE LET c1 == Emit(c, PageEvent("progress", NoIdx, "content"))
       IN IF hc
          THEN [BatchStart(BatchProgress(c1, 1), 1) EXCEPT !.pc = "batch"]
          ELSE SeqNext([c1 EXCEPT !.l.cur = 1])

\* GenCoverResult where a failed cover ends the run
GenCoverResult_Abort(c, hc) ==
  LET k == c.l.coverPage
      page == c.l.pages[k]
  IN IF c.g[k].st = "ok"
     THEN LET a == [c EXCEPT !.l.generatedImages = Append(@, Png(page.index)),
                             !.ts[c.l.taskId].generated = Put(@, page.index, Png(page.index))]
          IN IF a.ctd \in DOMAIN a.dirs /\ Png(page.index) \in DOMAIN a.dirs[a.ctd]
             THEN [a EXCEPT !.l.coverImageData = a.dirs[a.ctd][Png(page.index)],
                            !.pc = "cover_compress"]
             ELSE [a EXCEPT !.pc = "thrown"]
     ELSE GenFinish(Emit([c EXCEPT !.l.failedPages = Append(@, k),
                                   !.ts[c.l.taskId].failed = Put(@, page.index, "error")],
                         PageEvent("error", page.index, "cover")))

\* the cover call returned
GenCoverResult(c, hc) ==
  LET k == c.l.coverPage
      page == c.l.pages[k]
  IN IF c.g[k].st = "ok"
     THEN LET a == [c EXCEPT !.l.generatedImages = Append(@, Png(page.index)),
                             !.ts[c.l.taskId].generated = Put(@, page.index, Png(page.index))]
          IN \* fs.readFileSync(path.join(this.currentTaskDir, filename))
             IF a.ctd \in DOMAIN a.dirs /\ Png(page.index) \in DOMAIN a.dirs[a.ctd]
             THEN [a EXCEPT !.l.coverImageData = a.dirs[a.ctd][Png(page.index)],
                            !.pc = "cover_compress"]
             ELSE [a EXCEPT !.pc = "thrown"]
     ELSE GenContent(Emit([c EXCEPT !.l.failedPages = Append(@, k),
                                    !.ts[c.l.taskId].failed = Put(@, page.index, "error")],
                          PageEvent("error", page.index, "cover")), hc)

\* the cover was compressed: cache it, update the record, yield complete
GenCoverCompressed(c, hc) ==
  LET page == c.l.pages[c.l.coverPage]
      a == [c EXCEPT !.l.coverImageData = compressImage(@),
                     !.ts[c.l.taskId].cover_image = compressImage(c.l.coverImageData)]
      currentImages == IF hasRecord(a.st, a.l.recordId)
                       THEN getRecord(a.st, a.l.recordId).images
                       ELSE [task_id |-> a.l.taskId, generated |-> <<>>]
      b == IF a.l.recordId # NoRec
           THEN Update(a, [thumbnail |-> Png(page.index),
                           images |-> [task_id |-> a.l.taskId,
                                       generated |-> ArraySet(currentImages.generated,
                                                              page.index, Png(page.index))]])
           ELSE a
  IN GenContent(Emit(b, PageEvent("complete", page.index, "cover")), hc)

\* GenBegin that queues every page for the second phase, the cover included
GenBegin_NoCoverPhase(c, hc) ==
  LET a == IF c.l.recordId # NoRec
           THEN Update(c, [status |-> "generating",
                           images |-> [task_id |-> c.l.taskId, generated |-> <<>>]])
           ELSE c
  IN GenContent([a EXCEPT !.l.coverPage = 0,
                          !.l.otherPages = [k \in 1 .. Len(a.l.pages) |-> k]], hc)

\* record association, partition, cover progress event and cover call
GenBegin(c, hc) ==
  LET currentImages == IF hasRecord(c.st, c.l.recordId)
                       THEN getRecord(c.st, c.l.recordId).images
                       ELSE [task_id |-> Null, generated |-> <<>>]
      a == IF c.l.recordId # NoRec
           THEN Update(c, [status |-> "generating",
                           images |-> [currentImages EXCEPT !.task_id = c.l.taskId]])
           ELSE c
      pages == a.l.pages
      typed == LastCover(pages, Len(pages))
      b == [a EXCEPT !.l.coverPage = IF typed # 0 THEN typed
                                     ELSE IF Len(pages) > 0 THEN 1 ELSE 0,
                     !.l.otherPages = IF typed = 0 /\ Len(pages) > 0
                                      THEN Tail(NonCover(pages, 1))
                                      ELSE NonCover(pages, 1)]
  IN IF b.l.coverPage # 0
     THEN [GsiStart(Emit(b, PageEvent("progress", b.l.pages[b.l.coverPage].index, "cover")),
                    b.l.coverPage, NoImage)
           EXCEPT !.pc = "cover"]
     ELSE GenContent(b, hc)

\* entry of generateImages up to the import of the history service
GenEnter(c, pages, taskId, fullOutline, userTopic, recordId, serial) ==
  [c EXCEPT
     !.ctd = taskId,
     !.dirs = Mkdir(@, taskId),
     !.ts = Put(@, taskId, [epoch |-> serial, generated |-> EmptyMap,
                            failed |-> EmptyMap, cover_image |-> NoImage,
                            full_outline |-> fullOutline, user_topic |-> userTopic]),
     !.l = [IdleLoc EXCEPT !.flow = "generate", !.taskId = taskId,
                           !.recordId = recordId, !.pages = pages,
                           !.fullOutline = fullOutline, !.userTopic = userTopic],
     !.ev = <<>>,
     \* one call slot per page of the list (never fewer than MaxPages slots)
     !.g = [k \in 1 .. (IF Len(pages) > MaxPages THEN Len(pages) ELSE MaxPages)
              |-> IdleCall],
     !.prior = NoPrior]

\* ------------------------------------------------ retrySingleImageStreaming
\* the TaskState object the flow captured at entry is still the one in the map
Live(c) ==
  /\ c.l.epoch # 0
  /\ c.l.taskId \in DOMAIN c.ts
  /\ c.ts[c.l.taskId].epoch = c.l.epoch

\* the events of a single-page flow carry no phase
RetryFinishEvent(i, ok) == [event |-> "finish", index |-> i, phase |-> "none", success |-> ok]

\* progress event and the call
RetryBegin(c) ==
  [GsiStart(Emit(c, PageEvent("progress", c.l.pages[1].index, "none")),
            1, c.l.referenceImage)
   EXCEPT !.pc = "retry"]

\* RetryEnter that takes the cached cover whatever use_reference says
RetryEnter_IgnoreFlag(c, flow, taskId, page, useReference, fullOutline, userTopic, recordId) ==
  LET hasTs == taskId \in DOMAIN c.ts
      dirs1 == Mkdir(c.dirs, taskId)
      ref == IF hasTs THEN c.ts[taskId].cover_image ELSE NoImage
      a == [c EXCEPT
              !.ctd = taskId,
              !.dirs = dirs1,
              !.l = [IdleLoc EXCEPT
                       !.flow = flow, !.taskId = taskId, !.recordId = recordId,
                       !.pages = <<page>>, !.useReference = useReference,
                       !.referenceImage = ref,
                       !.epoch = IF hasTs THEN c.ts[taskId].epoch ELSE 0,
                       !.fullOutline = IF hasTs /\ fullOutline = ""
                                       THEN c.ts[taskId].full_outline ELSE fullOutline,
                       !.userTopic = IF hasTs /\ userTopic = ""
                                     THEN c.ts[taskId].user_topic ELSE userTopic],
              !.ev = <<>>,
              !.g = IdleCalls,
              !.prior = [image |-> IF Png(page.index) \in DOMAIN dirs1[taskId]
                                   THEN dirs1[taskId][Png(page.index)] ELSE NoImage,
                         generated |-> hasTs /\ page.index \in DOMAIN c.ts[taskId].generated]]
  IN IF useReference /\ ref = NoImage /\ Png(0) \in DOMAIN dirs1[taskId]
     THEN [a EXCEPT !.l.referenceImage = compressImage(dirs1[taskId][Png(0)]),
                    !.pc = "retry_ref"]
     ELSE RetryBegin(a)

\* entry: task directory, context from TaskState, reference image
RetryEnter(c, flow, taskId, page, useReference, fullOutline, userTopic, recordId) ==
  LET hasTs == taskId \in DOMAIN c.ts
      dirs1 == Mkdir(c.dirs, taskId)
      ref == IF hasTs /\ useReference THEN c.ts[taskId].cover_image ELSE NoImage
      a == [c EXCEPT
              !.ctd = taskId,
              !.dirs = dirs1,
              !.l = [IdleLoc EXCEPT
                       !.flow = flow, !.taskId = taskId, !.recordId = recordId,
                       !.pages = <<page>>, !.useReference = useReference,
                       !.referenceImage = ref,
                       !.epoch = IF hasTs THEN c.ts[taskId].epoch ELSE 0,
                       !.fullOutline = IF hasTs /\ fullOutline = ""
                                       THEN c.ts[taskId].full_outline ELSE fullOutline,
                       !.userTopic = IF hasTs /\ userTopic = ""
                                     THEN c.ts[taskId].user_topic ELSE userTopic],
              !.ev = <<>>,
              !.g = IdleCalls,
              !.prior = [image |-> IF Png(page.index) \in DOMAIN dirs1[taskId]
                                   THEN dirs1[taskId][Png(page.index)] ELSE NoImage,
                         generated |-> hasTs /\ page.index \in DOMAIN c.ts[taskId].generated]]
  IN IF useReference /\ ref = NoImage /\ Png(0) \in DOMAIN dirs1[taskId]
     THEN [a EXCEPT !.l.referenceImage = compressImage(dirs1[taskId][Png(0)]),
                    !.pc = "retry_ref"]
     ELSE RetryBegin(a)

\* complete and finish events of a successful retry
RetryFinishOk(c) ==
  [Emit(Emit(c, PageEvent("complete", c.l.pages[1].index, "none")),
        RetryFinishEvent(c.l.pages[1].index, TRUE))
   EXCEPT !.pc = "done"]

\* the call returned
RetryResult(c) ==
  LET i == c.l.pages[1].index
  IN IF c.g[1].st = "ok"
     THEN LET a == IF Live(c)
                   THEN [c EXCEPT !.ts[c.l.taskId].generated = Put(@, i, Png(i)),
                                  !.ts[c.l.taskId].failed = Del(@, i)]
                   ELSE c
          IN IF a.l.recordId # NoRec THEN [a EXCEPT !.pc = "retry_import"]
             ELSE RetryFinishOk(a)
     ELSE LET a == IF Live(c)
                   THEN [c EXCEPT !.ts[c.l.taskId].failed = Put(@, i, "error")]
                   ELSE c
          IN [Emit(Emit(a, PageEvent("error", i, "none")), RetryFinishEvent(i, FALSE))
              EXCEPT !.pc = "done"]

\* Array.prototype.includes
Includes(arr, v) == \E k \in DOMAIN arr : arr[k] = v

\* the record's read-modify-write after the import of the history service
RetryRecord(c) ==
  LET filename == Png(c.l.pages[1].index)
      generated == getRecord(c.st, c.l.recordId).images.generated
      a == IF hasRecord(c.st, c.l.recordId)
           THEN Update(c, [images |-> [task_id |-> c.l.taskId,
                                       generated |-> IF Includes(generated, filename)
                                                     THEN generated
                                                     ELSE Append(generated, filename)]])
           ELSE c
  IN RetryFinishOk(a)

\* -------------------------------------------------------- retryFailedImages
\* loop head: retry_start event and the call of the next page, or the
\* finish event after the last page
RetryFailedNext(c) ==
  IF c.l.cur > Len(c.l.pages)
  THEN [Emit(c, [event |-> "finish", index |-> NoIdx, phase |-> "none",
                 success |-> (c.l.failedCount = 0),
                 completed |-> c.l.successCount, failed |-> c.l.failedCount])
        EXCEPT !.pc = "done"]
  ELSE [GsiStart(Emit(c, PageEvent("retry_start", c.l.pages[c.l.cur].index, "none")),
                 c.l.cur, c.l.referenceImage)
        EXCEPT !.pc = "retry_failed"]

RetryFailedEnter(c, taskId, pages) ==
  LET hasTs == taskId \in DOMAIN c.ts
      dirs1 == Mkdir(c.dirs, taskId)
      ref == IF hasTs THEN c.ts[taskId].cover_image ELSE NoImage
      a == [c EXCEPT
              !.ctd = taskId,
              !.dirs = dirs1,
              !.l = [IdleLoc EXCEPT
                       !.flow = "retryFailed", !.taskId = taskId, !.pages = pages,
                       !.referenceImage = ref, !.cur = 1,
                       !.epoch = IF hasTs THEN c.ts[taskId].epoch ELSE 0,
                       !.fullOutline = IF hasTs THEN c.ts[taskId].full_outline ELSE "",
                       !.userTopic = IF hasTs THEN c.ts[taskId].user_topic ELSE ""],
              !.ev = <<>>,
              !.g = IdleCalls,
              !.prior = NoPrior]
  IN IF ref = NoImage /\ Png(0) \in DOMAIN dirs1[taskId]
     THEN [a EXCEPT !.l.referenceImage = compressImage(dirs1[taskId][Png(0)]),
                    !.pc = "retry_failed_ref"]
     ELSE RetryFailedNext(a)

\* RetryFailedResult that does not count a failed page
RetryFailedResult_Uncounted(c) ==
  LET k == c.l.cur
      i == c.l.pages[k].index
      a == IF c.g[k].st = "ok"
           THEN Emit([c EXCEPT !.l.successCount = @ + 1],
                     [event |-> "retry_finish", index |-> i, phase |-> "none"])
           ELSE Emit(c, PageEvent("error", i, "none"))
  IN RetryFailedNext([a EXCEPT !.l.cur = @ + 1])

\* the call of the current page returned
RetryFailedResult(c) ==
  LET k == c.l.cur
      i == c.l.pages[k].index
      a == IF c.g[k].st = "ok"
           THEN Emit([c EXCEPT !.l.successCount = @ + 1,
                               !.ts = IF Live(c)
                                      THEN [@ EXCEPT ![c.l.taskId].generated = Put(@, i, Png(i)),
                                                     ![c.l.taskId].failed = Del(@, i)]
                                      ELSE @],
                     [event |-> "retry_finish", index |-> i, phase |-> "none"])
           ELSE Emit([c EXCEPT !.l.failedCount = @ + 1,
                               !.ts = IF Live(c)
                                      THEN [@ EXCEPT ![c.l.taskId].failed = Put(@, i, "error")]
                                      ELSE @],
                     PageEvent("error", i, "none"))
  IN RetryFailedNext([a EXCEPT !.l.cur = @ + 1])

\* the flow resumes when the call it awaits has returned
Resume(c, hc) ==
  CASE c.pc = "cover" -> GenCoverResult(c, hc)
    [] c.pc = "seq" ->
         SeqNext([ContentResult(c, c.l.otherPages[c.l.cur]) EXCEPT !.l.cur = @ + 1])
    \* Promise.allSettled: every call of the batch has returned
    [] c.pc = "batch" ->
         IF \A i \in 1 .. Len(c.l.otherPages) : Returned(c.g[c.l.otherPages[i]])
         THEN GenFinish(BatchResults(c, 1)) ELSE c
    [] c.pc = "retry" -> RetryResult(c)
    [] c.pc = "retry_failed" -> RetryFailedResult(c)
    [] OTHER -> c

ResumeIfReturned(c, k, hc) == IF Returned(c.g[k]) THEN Resume(c, hc) ELSE c

\* ================================== generators and the ImageService instance
\* A string the routes slice or test is a sequence of characters; a value
\* that is no string is a one-element sequence: <<Undef>> (the field is
\* absent), <<Null>>, <<"true">>, <<"false">>.
TruthyValue(v) == v \notin {<<>>, <<Undef>>, <<Null>>, <<"false">>}

\* A URL or an endpoint is a sequence of pieces: "/" and "/v1" are the pieces
\* the constructors test, any other piece stands for text without a slash.
GENERATORS ==
  [t \in {"google_genai", "openai", "openai_compatible", "image_api"} |->
     IF t = "google_genai" THEN "GoogleGenAIGenerator"
     ELSE IF t = "image_api" THEN "ImageApiGenerator"
     ELSE "OpenAICompatibleGenerator"]

\* url.replace(/\/+$/, '').replace(/\/v1$/, '')
normalizeBaseUrl(url) ==
  LET \* the pieces up to the last one that is no slash
      n == CHOOSE i \in 0 .. Len(url) :
             /\ i = 0 \/ url[i] # "/"
             /\ \A j \in (i + 1) .. Len(url) : url[j] = "/"
      u == SubSeq(url, 1, n)
  IN IF u # <<>> /\ u[Len(u)] = "/v1" THEN SubSeq(u, 1, Len(u) - 1) ELSE u

\* ImageGeneratorFactory.create(provider, config): the generator constructed,
\* or where the call threw
create(provider, config) ==
  LET made == [provider |-> provider, api_key |-> config.api_key, base_url |-> config.base_url,
               endpoint_type |-> config.endpoint_type, class |-> "none",
               \* ImageGeneratorBase constructor
               baseUrl |-> config.base_url, endpointType |-> <<Undef>>,
               thrown |-> "", called |-> FALSE]
      \* config.endpoint_type || '/v1/images/generations', the two short forms expanded
      e == IF ~TruthyValue(config.endpoint_type) \/ config.endpoint_type = <<"images">>
           THEN <<"/v1", "/", "images", "/", "generations">>
           ELSE IF config.endpoint_type = <<"chat">>
                THEN <<"/v1", "/", "chat", "/", "completions">>
                ELSE config.endpoint_type
  IN IF provider \notin DOMAIN GENERATORS THEN [made EXCEPT !.thrown = "create"]
     ELSE IF GENERATORS[provider] = "GoogleGenAIGenerator"
     THEN IF ~TruthyValue(config.api_key) THEN [made EXCEPT !.thrown = "constructor"]
          ELSE [made EXCEPT !.class = "GoogleGenAIGenerator"]
     ELSE IF GENERATORS[provider] = "OpenAICompatibleGenerator"
     THEN IF ~TruthyValue(config.api_key) \/ ~TruthyValue(config.base_url)
          THEN [made EXCEPT !.thrown = "constructor"]
          ELSE [made EXCEPT !.class = "OpenAICompatibleGenerator",
                            !.baseUrl = normalizeBaseUrl(config.base_url),
                            !.endpointType = e]
     ELSE [made EXCEPT !.class = "ImageApiGenerator",
                       !.baseUrl = normalizeBaseUrl(IF TruthyValue(config.base_url)
                                                    THEN config.base_url
                                                    ELSE <<"https://api.example.com">>),
                       !.endpointType = IF e[1] = "/" \/ e[1] = "/v1" THEN e ELSE <<"/">> \o e]

\* getImageService(): the ImageService constructor does not throw (an instance
\* that exists came from the same files, which change only with a reset)
getImageService ==
  LET \* config.getImageProviderConfig(config.getActiveImageProvider()): the
      \* provider's entry, or that the call threw
      config == IF "image_generation" \in DOMAIN configFiles
                THEN configFiles["image_generation"]
                ELSE [active_provider |-> "google_genai", providers |-> [x \in {} |-> Null]]
      providerName == IF Truthy(config.active_provider) THEN config.active_provider
                      ELSE "google_genai"
      none == [thrown |-> TRUE, type |-> providerName, api_key |-> <<Undef>>]
      providerConfig ==
        IF DOMAIN config.providers = {} \/ providerName \notin DOMAIN config.providers
        THEN none
        ELSE IF ~TruthyValue(config.providers[providerName].api_key) THEN none
        \* the entries of this model carry no type and no base_url
        ELSE IF providerName \in {"openai", "openai_compatible", "image_api"} THEN none
        ELSE [thrown |-> FALSE, type |-> providerName,
              api_key |-> config.providers[providerName].api_key]
  IN /\ ~providerConfig.thrown
     /\ create(providerConfig.type,
               [api_key |-> providerConfig.api_key, base_url |-> <<Undef>>,
                endpoint_type |-> <<Undef>>]).thrown = ""

\* ------------------------------------------------------------------ actions
Free(p) == pc[p] \in {"idle", "done", "thrown"}

\* POST /generate: the route creates the generator and runs it to its first await
Generate(p, pages, taskId, ctx, recordId) ==
  /\ Free(p)
  /\ getImageService
  /\ budget > 0
  /\ budget' = budget - 1
  /\ LET a == GenEnter(Ctx(p), pages, taskId, ctx.full_outline, ctx.user_topic,
                       recordId, budget)
     IN Commit(p, IF recordId # NoRec THEN [a EXCEPT !.pc = "import"]
                  ELSE GenBegin(a, highConcurrency))
  /\ UNCHANGED <<nextId, highConcurrency>>

\* await import('./history') resolved
Imported(p) ==
  /\ pc[p] = "import"
  /\ Commit(p, GenBegin(Ctx(p), highConcurrency))
  /\ UNCHANGED <<nextId, highConcurrency, budget>>

\* the provider returned an image for page k of flow p
ProviderResolves(p, k) ==
  /\ gsi[p][k].st = "calling"
  /\ Commit(p, ResumeIfReturned(GsiSaveOriginal(Ctx(p), k), k, highConcurrency))
  /\ UNCHANGED <<nextId, highConcurrency, budget>>

\* the provider call for page k of flow p threw
ProviderRejects(p, k) ==
  /\ gsi[p][k].st = "calling"
  /\ Commit(p, ResumeIfReturned([Ctx(p) EXCEPT !.g[k] = GsiCatch(@)], k, highConcurrency))
  /\ UNCHANGED <<nextId, highConcurrency, budget>>

\* compressImage(imageData, 50) inside _saveImage resolved
ThumbnailCompressed(p, k) ==
  /\ gsi[p][k].st = "thumb"
  /\ Commit(p, ResumeIfReturned(GsiSaveThumb(Ctx(p), k), k, highConcurrency))
  /\ UNCHANGED <<nextId, highConcurrency, budget>>

\* the setTimeout of the backoff fired: next attempt, next provider call
BackoffElapsed(p, k) ==
  /\ gsi[p][k].st = "backoff"
  /\ Commit(p, [Ctx(p) EXCEPT !.g[k].st = "calling", !.g[k].attempt = @ + 1,
                              !.g[k].calls = @ + 1])
  /\ UNCHANGED <<nextId, highConcurrency, budget>>

\* compressImage(coverImageData, 200) resolved
CoverCompressed(p) ==
  /\ pc[p] = "cover_compress"
  /\ Commit(p, GenCoverCompressed(Ctx(p), highConcurrency))
  /\ UNCHANGED <<nextId, highConcurrency, budget>>

\* the record lookup of the /regenerate route that passes a record id: the
\* first record in index order whose detail names the task
RECURSIVE FindByTask(_, _, _)
FindByTask(st, taskId, i) ==
  IF i > Len(st.index) THEN NoRec
  ELSE IF hasRecord(st, st.index[i].id)
          /\ getRecord(st, st.index[i].id).images.task_id = taskId
       THEN st.index[i].id
       ELSE FindByTask(st, taskId, i + 1)

\* POST /retry
Retry(p, taskId, page, useReference) ==
  /\ Free(p)
  /\ getImageService
  /\ budget > 0
  /\ budget' = budget - 1
  /\ Commit(p, RetryEnter(Ctx(p), "retry", taskId, page, useReference, "", "", NoRec))
  /\ UNCHANGED <<nextId, highConcurrency>>

\* POST /regenerate; withRecord: the route variant that looks the record up
Regenerate(p, taskId, page, useReference, ctx, withRecord) ==
  /\ Free(p)
  /\ getImageService
  /\ budget > 0
  /\ budget' = budget - 1
  /\ Commit(p, RetryEnter(Ctx(p), "regenerate", taskId, page, useReference,
                          ctx.full_outline, ctx.user_topic,
                          IF withRecord THEN FindByTask(Store, taskId, 1) ELSE NoRec))
  /\ UNCHANGED <<nextId, highConcurrency>>

\* POST /retry-failed
RetryFailed(p, taskId, pages) ==
  /\ Free(p)
  /\ getImageService
  /\ budget > 0
  /\ budget' = budget - 1
  /\ Commit(p, RetryFailedEnter(Ctx(p), taskId, pages))
  /\ UNCHANGED <<nextId, highConcurrency>>

\* compressImage(coverData, 200) of the reference read from 0.png resolved
ReferenceCompressed(p) ==
  /\ pc[p] \in {"retry_ref", "retry_failed_ref"}
  /\ Commit(p, IF pc[p] = "retry_ref" THEN RetryBegin(Ctx(p)) ELSE RetryFailedNext(Ctx(p)))
  /\ UNCHANGED <<nextId, highConcurrency, budget>>

\* await import('./history') of retrySingleImageStreaming resolved
RetryImported(p) ==
  /\ pc[p] = "retry_import"
  /\ Commit(p, RetryRecord(Ctx(p)))
  /\ UNCHANGED <<nextId, highConcurrency, budget>>

\* the steps of a flow's provider calls and compressions
CallStep(p) ==
  \/ \E k \in 1 .. MaxPages : ProviderResolves(p, k)
  \/ \E k \in 1 .. MaxPages : ProviderRejects(p, k)
  \/ \E k \in 1 .. MaxPages : ThumbnailCompressed(p, k)
  \/ \E k \in 1 .. MaxPages : BackoffElapsed(p, k)
  \/ CoverCompressed(p)
  \/ ReferenceCompressed(p)

\* the request bodies of the flows
SeqPageLists == {ps \in PageLists : Len(ps) <= MaxSeqPages}
SinglePages == {[index |-> i, type |-> "content"] : i \in 0 .. (MaxSeqPages - 1)}

\* ------------------------------------------------- one run of generateImages
\* The service is constructed, the history holds one record (id 1) with a
\* two-page outline, no task directory exists.
InitGen ==
  /\ LET st == createRecord([index |-> <<>>, files |-> EmptyMap], 1, 0, "T",
                            <<"cover", "content">>, Undef)
     IN index = st.index /\ recordFiles = st.files
  /\ nextId = 2
  /\ clock = 1
  /\ taskDirs = EmptyMap
  /\ currentTaskDir = Null
  /\ taskStates = EmptyMap
  /\ highConcurrency \in BOOLEAN
  /\ pc = [p \in Procs |-> "idle"]
  /\ loc = [p \in Procs |-> IdleLoc]
  /\ gsi = [p \in Procs |-> IdleCalls]
  /\ events = [p \in Procs |-> <<>>]
  /\ prior = [p \in Procs |-> NoPrior]
  /\ budget = 1
  /\ AuxInit

NextGen ==
  \/ \E pages \in PageLists, rid \in {NoRec, 1} :
       Generate(1, pages, "t1", [full_outline |-> "O1", user_topic |-> "T1"], rid)
  \/ Imported(1)
  \/ \E k \in 1 .. MaxPages : ProviderResolves(1, k)
  \/ \E k \in 1 .. MaxPages : ProviderRejects(1, k)
  \/ \E k \in 1 .. MaxPages : ThumbnailCompressed(1, k)
  \/ \E k \in 1 .. MaxPages : BackoffElapsed(1, k)
  \/ CoverCompressed(1)

SpecGen == InitGen /\ [][NextGen]_vars

\* ------------------------------------------------------ the history routes
\* POST /history
HCreate(topic, outline, taskId) ==
  /\ nextId <= MaxRecords
  /\ clock < MaxOps
  /\ LET st == createRecord(Store, nextId, clock, topic, outline, taskId)
     IN index' = st.index /\ recordFiles' = st.files
  /\ nextId' = nextId + 1
  /\ clock' = clock + 1
  /\ lastCall' = [NoCall EXCEPT !.op = "createRecord", !.id = nextId, !.ok = TRUE,
                                !.topic = topic, !.outline = outline, !.taskId = taskId]
  /\ UNCHANGED <<taskDirs, svcVars, textVars, clientVars>>

\* PUT /history/:recordId
HUpdate(recordId, updates) ==
  /\ clock < MaxOps
  /\ LET st == updateRecord(Store, recordId, clock, updates)
     IN index' = st.index /\ recordFiles' = st.files
  /\ clock' = clock + 1
  /\ lastCall' = [NoCall EXCEPT !.op = "updateRecord", !.id = recordId,
                                !.ok = hasRecord(Store, recordId)]
  /\ UNCHANGED <<nextId, taskDirs, svcVars, textVars, clientVars>>

\* DELETE /history/:recordId
HDelete(recordId) ==
  /\ clock < MaxOps
  /\ LET st == deleteRecord(Store, recordId)
     IN index' = st.index /\ recordFiles' = st.files
  /\ taskDirs' = [t \in DOMAIN taskDirs \ DeleteTaskDirs(Store, recordId) |-> taskDirs[t]]
  /\ clock' = clock + 1
  /\ lastCall' = [NoCall EXCEPT !.op = "deleteRecord", !.id = recordId,
                                !.ok = hasRecord(Store, recordId),
                                !.taskId = IF hasRecord(Store, recordId)
                                           THEN getRecord(Store, recordId).images.task_id
                                           ELSE "",
                                !.removed = DeleteTaskDirs(Store, recordId)
                                              \cap DOMAIN taskDirs]
  /\ UNCHANGED <<nextId, svcVars, textVars, clientVars>>

\* GET /history/scan/:taskId
HScan(taskId) ==
  /\ clock < MaxOps
  /\ LET r == scanAndSyncTaskImages(Store, taskDirs, taskId, clock)
     IN /\ index' = r.st.index
        /\ recordFiles' = r.st.files
        /\ lastCall' = [NoCall EXCEPT !.op = "scanAndSyncTaskImages", !.id = r.record_id,
                                      !.ok = r.success, !.taskId = taskId,
                                      !.no_record = r.no_record, !.images = r.images,
                                      !.status = r.status]
  /\ clock' = clock + 1
  /\ UNCHANGED <<nextId, taskDirs, svcVars, textVars, clientVars>>

\* POST /history/scan-all
HScanAll ==
  /\ clock < MaxOps
  /\ LET r == scanAllTasks(Store, taskDirs, clock)
     IN /\ index' = r.st.index
        /\ recordFiles' = r.st.files
        /\ lastCall' = [NoCall EXCEPT !.op = "scanAllTasks", !.ok = TRUE,
                                      !.total_tasks = r.result.total_tasks,
                                      !.synced = r.result.synced,
                                      !.failed = r.result.failed,
                                      !.orphan_tasks = r.result.orphan_tasks,
                                      !.dirs = DOMAIN taskDirs]
  /\ clock' = clock + 1
  /\ UNCHANGED <<nextId, taskDirs, svcVars, textVars, clientVars>>

\* the request bodies the routes accept
Outlines == {<<>>, <<"cover", "content">>}
\* The history directory holds no record; some task directories exist, each
\* with the contents the image flows leave: nothing (every call failed), the
\* cover and its thumbnail, or two pages.
InitHist ==
  /\ index = <<>>
  /\ recordFiles = EmptyMap
  /\ nextId = 1
  /\ clock = 0
  /\ \E ts \in SUBSET TaskIds :
       \E contents \in [ts -> 1 .. 3] :
         taskDirs = [t \in ts |->
           IF contents[t] = 1 THEN EmptyMap
           ELSE IF contents[t] = 2
                THEN [f \in {Png(0), Thumb(0)} |->
                        IF f = Png(0) THEN Image(t, "generate")
                        ELSE compressImage(Image(t, "generate"))]
                ELSE [f \in {Png(0), Png(1)} |-> Image(t, "generate")]]
  /\ currentTaskDir = Null
  /\ taskStates = EmptyMap
  /\ highConcurrency = FALSE
  /\ pc = [p \in Procs |-> "idle"]
  /\ loc = [p \in Procs |-> IdleLoc]
  /\ gsi = [p \in Procs |-> IdleCalls]
  /\ events = [p \in Procs |-> <<>>]
  /\ prior = [p \in Procs |-> NoPrior]
  /\ budget = 0
  /\ AuxInit

NextHist ==
  LET ImagesValues == {[task_id |-> t, generated |-> <<Png(0)>>] : t \in {Null} \cup TaskIds}
      \* a body with no key, with one key, or with all four keys
      UpdatesValues ==
        {EmptyMap}
        \cup {[outline |-> x] : x \in Outlines}
        \cup {[images |-> x] : x \in ImagesValues}
        \cup {[status |-> x] : x \in {"", "completed"}}
        \cup {[thumbnail |-> x] : x \in {Null, Png(0)}}
        \cup {[outline |-> <<"cover", "content">>, images |-> x, status |-> "completed",
               thumbnail |-> Png(0)] : x \in ImagesValues}
  IN
  \/ \E topic \in {"T"}, outline \in Outlines, taskId \in {Undef, ""} \cup TaskIds :
       HCreate(topic, outline, taskId)
  \/ \E recordId \in 1 .. MaxRecords, updates \in UpdatesValues : HUpdate(recordId, updates)
  \/ \E recordId \in 1 .. MaxRecords : HDelete(recordId)
  \/ \E taskId \in TaskIds : HScan(taskId)
  \/ HScanAll

SpecHist == InitHist /\ [][NextHist]_vars

\* ---------------------------------------- flows served one after the other
\* As InitGen, with a budget of MaxFlows requests.
InitSeq ==
  /\ LET st == createRecord([index |-> <<>>, files |-> EmptyMap], 1, 0, "T",
                            <<"cover", "content">>, Undef)
     IN index = st.index /\ recordFiles = st.files
  /\ nextId = 2
  /\ clock = 1
  /\ taskDirs = EmptyMap
  /\ currentTaskDir = Null
  /\ taskStates = EmptyMap
  /\ highConcurrency \in BOOLEAN
  /\ pc = [p \in Procs |-> "idle"]
  /\ loc = [p \in Procs |-> IdleLoc]
  /\ gsi = [p \in Procs |-> IdleCalls]
  /\ events = [p \in Procs |-> <<>>]
  /\ prior = [p \in Procs |-> NoPrior]
  /\ budget = MaxFlows
  /\ AuxInit

NextSeq ==
  \/ \E pages \in SeqPageLists, rid \in {NoRec, 1},
        ctx \in {[full_outline |-> "", user_topic |-> ""],
                 [full_outline |-> "O1", user_topic |-> "T1"]} :
       Generate(1, pages, "t1", ctx, rid)
  \/ \E page \in SinglePages, useReference \in BOOLEAN : Retry(1, "t1", page, useReference)
  \/ \E page \in SinglePages, useReference \in BOOLEAN, withRecord \in BOOLEAN,
        ctx \in {[full_outline |-> "", user_topic |-> ""],
                 [full_outline |-> "O2", user_topic |-> "T2"]} :
       Regenerate(1, "t1", page, useReference, ctx, withRecord)
  \* the page lists of /retry-failed: content pages in increasing index order
  \/ \E pages \in {ps \in SeqPageLists : \A k \in DOMAIN ps : ps[k].type = "content"} :
       RetryFailed(1, "t1", pages)
  \/ CallStep(1)
  \/ Imported(1)
  \/ RetryImported(1)

SpecSeq == InitSeq /\ [][NextSeq]_vars

\* ------------------------- flows of different tasks on the shared instance
\* Each client drives its own task: client 1 task "t1", client 2 task "t2".

\* the service constructed, nothing on disk, a budget of b requests
ServiceInit(b) ==
  /\ index = <<>>
  /\ recordFiles = EmptyMap
  /\ nextId = 1
  /\ clock = 0
  /\ taskDirs = EmptyMap
  /\ currentTaskDir = Null
  /\ taskStates = EmptyMap
  /\ highConcurrency \in BOOLEAN
  /\ pc = [p \in Procs |-> "idle"]
  /\ loc = [p \in Procs |-> IdleLoc]
  /\ gsi = [p \in Procs |-> IdleCalls]
  /\ events = [p \in Procs |-> <<>>]
  /\ prior = [p \in Procs |-> NoPrior]
  /\ budget = b
  /\ AuxInit

NextConc ==
  \E p \in Procs :
    LET TaskOf(q) == IF q = 1 THEN "t1" ELSE "t2"
    IN
    \/ \E pages \in {Pages(<<"cover">>), Pages(<<"cover", "content">>)} :
         Generate(p, pages, TaskOf(p), [full_outline |-> "O1", user_topic |-> "T1"], NoRec)
    \/ \E page \in SinglePages, useReference \in BOOLEAN :
         Retry(p, TaskOf(p), page, useReference)
    \/ RetryFailed(p, TaskOf(p), <<[index |-> 1, type |-> "content"]>>)
    \/ CallStep(p)

SpecConc == ServiceInit(MaxFlows) /\ [][NextConc]_vars

\* ------------------------------------- the fan-out of the content pages
\* One generation of a cover followed by content pages; only the cover's
\* call is followed to its end, the content calls stay with the provider.
NextFan ==
  \/ \E pages \in {Pages([k \in 1 .. n |-> IF k = 1 THEN "cover" ELSE "content"]) :
                      n \in 1 .. MaxFanPages} :
       Generate(1, pages, "t1", [full_outline |-> "O1", user_topic |-> "T1"], NoRec)
  \/ ProviderResolves(1, 1)
  \/ ProviderRejects(1, 1)
  \/ ThumbnailCompressed(1, 1)
  \/ BackoffElapsed(1, 1)
  \/ CoverCompressed(1)

SpecFan == ServiceInit(1) /\ [][NextFan]_vars

\* ============================================================ OutlineService
\* An outline text is a sequence of tokens: the delimiters, a whitespace
\* character, the brackets, label words and a run of other characters.
Whitespace == {" "}
\* the label words of the type mapping (the keys are Chinese words: fengmian,
\* neirong, zongjie), written in pinyin
CoverLabel == "fengmian"
ContentLabel == "neirong"
SummaryLabel == "zongjie"

\* the separators of split(/<page>/i), or of split('---') without '<page>'
Delimiters(text) ==
  IF \E i \in DOMAIN text : text[i] = "<page>"   \* outlineText.includes('<page>')
  THEN {"<page>", "<PAGE>"} ELSE {"---"}

\* String.prototype.split: the segments between the separators
RECURSIVE splitAt(_, _, _)
splitAt(text, seps, cur) ==
  IF text = <<>> THEN <<cur>>
  ELSE IF Head(text) \in seps THEN <<cur>> \o splitAt(Tail(text), seps, <<>>)
       ELSE splitAt(Tail(text), seps, Append(cur, Head(text)))
split(text) == splitAt(text, Delimiters(text), <<>>)

\* String.prototype.trim
RECURSIVE trimStart(_)
trimStart(t) ==
  IF t # <<>> /\ Head(t) \in Whitespace THEN trimStart(Tail(t)) ELSE t
RECURSIVE trimEnd(_)
trimEnd(t) ==
  IF t # <<>> /\ t[Len(t)] \in Whitespace THEN trimEnd(SubSeq(t, 1, Len(t) - 1)) ELSE t
trim(t) == trimEnd(trimStart(t))

\* the length of the leading run of non-whitespace tokens
RECURSIVE NonSpaceRun(_)
NonSpaceRun(t) ==
  IF t = <<>> \/ Head(t) \in Whitespace THEN 0 ELSE 1 + NonSpaceRun(Tail(t))

\* pageText.match(/^\[(\S+)\]/): the group, <<>> when there is no match.
\* \S+ is greedy: the group runs to the last ']' of the leading
\* whitespace-free run.
typeMatch(t) ==
  LET closes == {j \in 3 .. NonSpaceRun(t) : t[j] = "]"}
  IN IF t # <<>> /\ t[1] = "[" /\ closes # {}
     THEN SubSeq(t, 2, (CHOOSE j \in closes : \A i \in closes : i <= j) - 1)
     ELSE <<>>

\* typeMapping[typeCn] || 'content': a property lookup on an object literal,
\* which also finds the properties inherited from Object.prototype
typeMapping(typeCn) ==
  IF typeCn = <<CoverLabel>> THEN "cover"
  ELSE IF typeCn = <<ContentLabel>> THEN "content"
  ELSE IF typeCn = <<SummaryLabel>> THEN "summary"
  ELSE IF typeCn = <<"constructor">> THEN "[Function: Object]"
  ELSE "content"

\* the forEach over pagesRaw; i is the position in pagesRaw (one-based here)
RECURSIVE parseSegments(_, _)
parseSegments(pagesRaw, i) ==
  IF i > Len(pagesRaw) THEN <<>>
  ELSE LET pageText == trim(pagesRaw[i])
           pageType == IF typeMatch(pageText) # <<>>
                       THEN typeMapping(typeMatch(pageText)) ELSE "content"
       IN IF pageText = <<>> THEN parseSegments(pagesRaw, i + 1)
          ELSE <<[index |-> i - 1, type |-> pageType, content |-> pageText]>>
               \o parseSegments(pagesRaw, i + 1)

parseOutline(text) == parseSegments(split(text), 1)

\* The text model's response grows by a token; the service parses what it has.
OutlineReceived(tok) ==
  /\ Len(outlineText) < MaxText
  /\ outlineText' = Append(outlineText, tok)
  /\ outlinePages' = parseOutline(outlineText')
  /\ outlineSuccess' = "true"
  /\ UNCHANGED <<histVars, taskDirs, svcVars, lastCall, clientVars>>

\* generateText threw: generateOutline answers success false, without pages
OutlineFailed ==
  /\ outlineSuccess' = "false"
  /\ outlineText' = <<>>
  /\ outlinePages' = <<>>
  /\ UNCHANGED <<histVars, taskDirs, svcVars, lastCall, clientVars>>

\* every component idle
IdleInit ==
  /\ index = <<>>
  /\ recordFiles = EmptyMap
  /\ nextId = 1
  /\ clock = 0
  /\ taskDirs = EmptyMap
  /\ currentTaskDir = Null
  /\ taskStates = EmptyMap
  /\ highConcurrency = FALSE
  /\ pc = [p \in Procs |-> "idle"]
  /\ loc = [p \in Procs |-> IdleLoc]
  /\ gsi = [p \in Procs |-> IdleCalls]
  /\ events = [p \in Procs |-> <<>>]
  /\ prior = [p \in Procs |-> NoPrior]
  /\ budget = 0
  /\ AuxInit

NextParse ==
  \/ \E tok \in {"<page>", "<PAGE>", "---", " ", "[", "]", CoverLabel, SummaryLabel,
               "constructor", "A"} :
    OutlineReceived(tok)
  \/ OutlineFailed
SpecParse == IdleInit /\ [][NextParse]_vars

\* ============================== generateViaChatApi (streaming chat mode)
\* ImageApiGenerator and OpenAICompatibleGenerator share this code.
MAX_CHUNKS == 200

\* The text of a chunk is a sequence of pieces: the JSON of a delta with
\* finish_reason 'stop' and a content ("STOP"), the same without content
\* ("STOPNC"), the JSON of any other delta ("DELTA"), and a newline ("NL").
Pieces == {"STOP", "STOPNC", "DELTA", "NL"}

\* buffer += chunkStr; lines = buffer.split('\n'); buffer = lines.pop():
\* the complete lines, in order, and the unterminated rest.  A line (or the
\* buffer) is "", one piece, or "GARBAGE": the concatenation of two JSON
\* texts, which JSON.parse rejects.
RECURSIVE splitLines(_, _, _)
splitLines(cur, chunk, lines) ==
  IF chunk = <<>> THEN [lines |-> lines, buffer |-> cur]
  ELSE IF Head(chunk) = "NL" THEN splitLines("", Tail(chunk), Append(lines, cur))
       ELSE splitLines(IF cur = "" THEN Head(chunk) ELSE "GARBAGE", Tail(chunk), lines)

\* the for loop over the lines: the first line with finish_reason 'stop'
\* ends it ("content": with content, "nocontent": without, "none": no such line)
RECURSIVE firstStop(_)
firstStop(lines) ==
  IF lines = <<>> THEN "none"
  ELSE IF Head(lines) = "STOP" THEN "content"
       ELSE IF Head(lines) = "STOPNC" THEN "nocontent"
            ELSE firstStop(Tail(lines))

\* resolve / reject of the promise: only the first settles it
settle(str, outcome, reason) ==
  IF str.promise = "pending" THEN [str EXCEPT !.promise = outcome, !.reason = reason]
  ELSE str

\* the 'data' listener with the chunk limit off by one
onData_Early(str, chunk) ==
  LET n == str.chunkCount + 1
      sp == splitLines(str.buffer, chunk, <<>>)
      counted == [str EXCEPT !.chunkCount = n]
  IN IF n >= MAX_CHUNKS
     THEN settle([counted EXCEPT !.listening = FALSE], "rejected", "timeout")
     ELSE IF firstStop(sp.lines) = "content"
          THEN [counted EXCEPT !.buffer = sp.buffer, !.listening = FALSE,
                               !.download = "pending"]
          ELSE IF firstStop(sp.lines) = "nocontent"
               THEN settle([counted EXCEPT !.buffer = sp.buffer], "rejected", "no_content")
               ELSE [counted EXCEPT !.buffer = sp.buffer]

\* the 'data' listener
onData(str, chunk) ==
  LET n == str.chunkCount + 1
      sp == splitLines(str.buffer, chunk, <<>>)
      counted == [str EXCEPT !.chunkCount = n]
  IN IF n > MAX_CHUNKS
     THEN settle([counted EXCEPT !.listening = FALSE], "rejected", "timeout")
     ELSE IF firstStop(sp.lines) = "content"
          THEN [counted EXCEPT !.buffer = sp.buffer, !.listening = FALSE,
                               !.download = "pending"]
          ELSE IF firstStop(sp.lines) = "nocontent"
               THEN settle([counted EXCEPT !.buffer = sp.buffer], "rejected", "no_content")
               ELSE [counted EXCEPT !.buffer = sp.buffer]

StreamFrame ==
  UNCHANGED <<histVars, taskDirs, svcVars, textVars, lastCall, textCall,
              configFiles, configResponse, generator>>

\* await this.axios.post(...) resolved: the listeners are attached
StreamOpened ==
  /\ stream.phase = "idle"
  /\ stream' = [stream EXCEPT !.phase = "open", !.listening = TRUE, !.promise = "pending"]
  /\ StreamFrame

\* await this.axios.post(...) threw: the catch block rethrows
PostFailed ==
  /\ stream.phase = "idle"
  /\ stream' = [stream EXCEPT !.phase = "errored", !.promise = "rejected", !.reason = "http"]
  /\ StreamFrame

\* the stream emits 'data'
StreamData(chunk) ==
  /\ stream.phase = "open"
  /\ stream.listening
  /\ stream' = [onData(stream, chunk) EXCEPT
                  !.stopCarried = @ \/ \E i \in DOMAIN chunk : chunk[i] \in {"STOP", "STOPNC"}]
  /\ StreamFrame

\* the stream emits 'end'
StreamEnd ==
  /\ stream.phase = "open"
  /\ stream' = IF stream.listening
               THEN settle([stream EXCEPT !.phase = "ended"], "rejected", "no_stop")
               ELSE [stream EXCEPT !.phase = "ended"]
  /\ StreamFrame

\* the stream emits 'error'
StreamError ==
  /\ stream.phase = "open"
  /\ stream' = IF stream.listening
               THEN settle([stream EXCEPT !.phase = "errored"], "rejected", "stream_error")
               ELSE [stream EXCEPT !.phase = "errored"]
  /\ StreamFrame

\* extractAndDownloadImage(content) settled
DownloadSettled(ok) ==
  /\ stream.download = "pending"
  /\ stream' = settle([stream EXCEPT !.download = IF ok THEN "done" ELSE "failed"],
                      IF ok THEN "resolved" ELSE "rejected",
                      IF ok THEN "" ELSE "download")
  /\ StreamFrame

NextStream ==
  \/ StreamOpened
  \/ PostFailed
  \/ \E chunk \in {<<a>> : a \in Pieces} \cup {<<a, b>> : a \in Pieces, b \in Pieces} :
       StreamData(chunk)
  \/ StreamEnd
  \/ StreamError
  \/ \E ok \in BOOLEAN : DownloadSettled(ok)
SpecStream == IdleInit /\ [][NextStream]_vars

\* ================================== TextChatClient.generateText, retryOn429
\* @retryOn429(3, 2)
maxRetries == 3

\* The endpoint's answer resp: the HTTP status (0: no response, a network
\* error), for 200 whether choices holds a text, and whether the error
\* detail (the response body or the network error's message) contains
\* '429' or 'rate' in any case.
\* generateText's catch block turns the failure into an Error with a fixed
\* text per status; whether that text, lowercased, includes '429' or 'rate':
\* the texts for 401, 404, 429 and 5xx hold neither, the text for 403 and the
\* general one (also reached by the format error thrown inside the try
\* block and by network errors) quote the error detail.
\* The wrapper's catch block retries on that test.
retryCatch(call, resp) ==
  LET messageMatches == IF resp.status \in {401, 404, 429} \/ resp.status >= 500
                        THEN FALSE ELSE resp.detailMatches
  IN
  IF messageMatches /\ call.attempt < maxRetries - 1
  THEN [call EXCEPT !.st = "backoff", !.responses = Append(@, resp),
                    !.waits = Append(@, Pow2(call.attempt))]   \* baseDelay = 2
  ELSE [call EXCEPT !.st = "thrown", !.responses = Append(@, resp)]

TextFrame ==
  UNCHANGED <<histVars, taskDirs, svcVars, textVars, lastCall, stream,
              configFiles, configResponse, generator>>

\* the decorated generateText is called: first attempt
TextCallStarted ==
  /\ textCall.st = "idle"
  /\ textCall' = [textCall EXCEPT !.st = "calling"]
  /\ TextFrame

\* the endpoint answered the attempt
TextResponded(resp) ==
  /\ textCall.st = "calling"
  /\ textCall' = IF resp.status = 200 /\ resp.ok
                 THEN [textCall EXCEPT !.st = "returned", !.responses = Append(@, resp)]
                 ELSE retryCatch(textCall, resp)
  /\ TextFrame

\* the wait before the next attempt elapsed
TextBackoffElapsed ==
  /\ textCall.st = "backoff"
  /\ textCall' = [textCall EXCEPT !.st = "calling", !.attempt = @ + 1]
  /\ TextFrame

NextText ==
  \/ TextCallStarted
  \/ \E resp \in {[status |-> 200, ok |-> TRUE, detailMatches |-> FALSE]}
                 \cup {[status |-> st, ok |-> FALSE, detailMatches |-> m] :
                         st \in {0, 200, 400, 401, 403, 404, 429, 500}, m \in BOOLEAN} :
       TextResponded(resp)
  \/ TextBackoffElapsed
SpecText == IdleInit /\ [][NextText]_vars

\* ======================================================== configuration API
\* maskApiKey: the first four and the last four characters, stars between
maskApiKey(key) ==
  LET Stars(n) == [i \in 1 .. n |-> "*"]
  IN
  IF ~TruthyValue(key) THEN <<>>
  ELSE IF Len(key) <= 8 THEN Stars(Len(key))
  ELSE SubSeq(key, 1, 4) \o Stars(Len(key) - 8) \o SubSeq(key, Len(key) - 3, Len(key))

prepareProvidersForResponse(providers) ==
  [name \in DOMAIN providers |->
     IF TruthyValue(providers[name].api_key)
     THEN [providers[name] EXCEPT !.api_key_masked = maskApiKey(providers[name].api_key),
                                  !.api_key = <<>>]
     ELSE [providers[name] EXCEPT !.api_key_masked = <<>>, !.api_key = <<>>]]

\* GET /config
GetConfig ==
  /\ configResponse' =
       \* what the route reads of one file (the defaults when it does not exist)
       LET ReadConfig(kind) ==
             IF kind \in DOMAIN configFiles THEN configFiles[kind]
             ELSE [active_provider |-> IF kind = "image_generation" THEN "google_genai"
                                       ELSE "google_gemini",
                   providers |-> EmptyMap]
       IN [kind \in {"text_generation", "image_generation"} |->
             [active_provider |-> IF Truthy(ReadConfig(kind).active_provider)
                                  THEN ReadConfig(kind).active_provider ELSE "",
              providers |-> prepareProvidersForResponse(ReadConfig(kind).providers)]]
  /\ UNCHANGED <<histVars, taskDirs, svcVars, textVars, lastCall, stream, textCall,
                 configFiles, generator>>

\* POST /config without restoring the stored key of an entry with an empty one
WriteConfig_DropKey(files, kind, section) ==
  LET old == IF kind \in DOMAIN files THEN files[kind]
             ELSE [active_provider |-> Undef, providers |-> EmptyMap]
      entry(name) == [api_key |-> section.providers[name].api_key,
                      api_key_masked |-> <<Undef>>, api_key_env |-> <<Undef>>]
  IN Put(files, kind,
         [active_provider |-> IF section.active_provider # Undef
                              THEN section.active_provider ELSE old.active_provider,
          providers |-> IF section.hasProviders
                        THEN [name \in DOMAIN section.providers |-> entry(name)]
                        ELSE old.providers])

\* POST /config, one section of the body: the file it writes
WriteConfig(files, kind, section) ==
  LET old == IF kind \in DOMAIN files THEN files[kind]
             ELSE [active_provider |-> Undef, providers |-> EmptyMap]
      \* [true, false, '', null, undefined].includes(newConfig.api_key)
      empty(v) == v \in {<<"true">>, <<"false">>, <<>>, <<Null>>, <<Undef>>}
      entry(name) ==
        LET newConfig == section.providers[name]
        IN [api_key |-> IF empty(newConfig.api_key)
                        THEN IF name \in DOMAIN old.providers
                                /\ TruthyValue(old.providers[name].api_key)
                             THEN old.providers[name].api_key
                             ELSE <<Undef>>
                        ELSE newConfig.api_key,
            api_key_masked |-> <<Undef>>,
            api_key_env |-> <<Undef>>]
  IN Put(files, kind,
         [active_provider |-> IF section.active_provider # Undef
                              THEN section.active_provider ELSE old.active_provider,
          providers |-> IF section.hasProviders
                        THEN [name \in DOMAIN section.providers |-> entry(name)]
                        ELSE old.providers])

\* configResponse is the last answer of the two routes.
\* POST /config: body holds a section per kind it names; the route writes
\* the files, clears the configuration cache and resets the ImageService
\* instance (the next request constructs a new one, without TaskStates).
\* Served while no image flow is running.
PostConfig(body) ==
  /\ \A p \in Procs : pc[p] \in {"idle", "done", "thrown"}
  /\ configFiles' =
       LET a == IF "image_generation" \in DOMAIN body
                THEN WriteConfig(configFiles, "image_generation", body["image_generation"])
                ELSE configFiles
       IN IF "text_generation" \in DOMAIN body
          THEN WriteConfig(a, "text_generation", body["text_generation"])
          ELSE a
  /\ taskStates' = EmptyMap
  /\ currentTaskDir' = Null
  /\ highConcurrency' = FALSE
  \* the answer is {success: true, message}: no providers in it
  /\ configResponse' = EmptyMap
  /\ UNCHANGED <<histVars, taskDirs, pc, loc, gsi, events, prior, budget, res, textVars,
                 lastCall, stream, textCall, generator>>

\* the provider entries and sections a client submits
Sections(names) ==
  LET SubmittedEntries ==
        {[api_key |-> k, api_key_masked |-> <<Undef>>, api_key_env |-> <<Undef>>] :
           k \in {<<Undef>>, <<>>, <<Null>>, <<"a", "b", "c">>,
                  <<"s", "k", "-", "9", "8", "7", "6", "5", "4", "3">>}}
  IN
  {[active_provider |-> a, hasProviders |-> h, providers |-> ps] :
     a \in {Undef, "google_genai"}, h \in {TRUE},
     ps \in UNION {[S -> SubmittedEntries] : S \in SUBSET names}}
  \cup {[active_provider |-> "openai", hasProviders |-> FALSE, providers |-> EmptyMap]}

NextCfg ==
  \/ GetConfig
  \/ \E section \in Sections({"google_genai", "openai"}) :
       PostConfig([k \in {"image_generation"} |-> section])
  \/ \E section \in Sections({"google_gemini"}) :
       PostConfig([k \in {"text_generation"} |-> section])
  \* the providers GET /config returned, posted back unchanged
  \/ /\ configResponse # EmptyMap
     /\ PostConfig([k \in DOMAIN configResponse |->
                     [active_provider |-> configResponse[k].active_provider,
                      hasProviders |-> TRUE,
                      providers |-> configResponse[k].providers]])

SpecCfg == IdleInit /\ [][NextCfg]_vars

\* ------------------------------ requests of one task and of the settings
\* Client 1 generates task "t1" into record 1 while client 2 regenerates
\* single pages of it; POST /config is served between flows.
NextTask ==
  \/ Generate(1, Pages(<<"cover", "content">>), "t1",
              [full_outline |-> "O1", user_topic |-> "T1"], 1)
  \/ \E page \in SinglePages, useReference \in BOOLEAN :
       Regenerate(2, "t1", page, useReference, [full_outline |-> "", user_topic |-> ""], TRUE)
  \/ \E p \in Procs : CallStep(p) \/ Imported(p) \/ RetryImported(p)
  \/ \E providers \in {EmptyMap,
                        [n \in {"google_genai"} |->
                           [api_key |-> <<>>, api_key_masked |-> <<Undef>>,
                            api_key_env |-> <<Undef>>]]} :
       PostConfig([k \in {"image_generation"} |->
                     [active_provider |-> Undef, hasProviders |-> TRUE,
                      providers |-> providers]])

SpecTask == InitSeq /\ [][NextTask]_vars

\* ======================================================== generator factory
\* a caller constructs a generator
FactoryCreate(provider, config) ==
  /\ generator' = create(provider, config)
  /\ UNCHANGED <<histVars, taskDirs, svcVars, textVars, lastCall, stream, textCall,
                 configFiles, configResponse>>

\* generateImage on the generator constructed last: ImageApiGenerator starts
\* with this.validateConfig(), which throws without an API key
GenerateImageCalled ==
  /\ generator.class # "none"
  /\ ~generator.called
  /\ generator' = [generator EXCEPT
                     !.called = TRUE,
                     !.thrown = IF generator.class = "ImageApiGenerator"
                                   /\ ~TruthyValue(generator.api_key)
                                THEN "generateImage" ELSE ""]
  /\ UNCHANGED <<histVars, taskDirs, svcVars, textVars, lastCall, stream, textCall,
                 configFiles, configResponse>>

NextFactory ==
  \/ \E provider \in DOMAIN GENERATORS \cup {"dalle"},
        api_key \in {<<Undef>>, <<>>, <<"s", "k">>},
        base_url \in {<<Undef>>, <<>>} \cup
                     {<<"https://h">> \o t : t \in {<<>>, <<"/">>, <<"/v1">>, <<"/v1", "/">>,
                                                   <<"/", "/">>, <<"/v1", "/v1">>}},
        endpoint_type \in {<<Undef>>, <<"images">>, <<"chat">>, <<"gen">>, <<"/", "gen">>} :
       FactoryCreate(provider, [api_key |-> api_key, base_url |-> base_url,
                                endpoint_type |-> endpoint_type])
  \/ GenerateImageCalled

SpecFactory == IdleInit /\ [][NextFactory]_vars

\* ================================================================== claims
GenFlows == {p \in Procs : loc[p].flow = "generate"}
EventsAt(p, names, i) ==
  {j \in DOMAIN events[p] : events[p][j].event \in names /\ events[p][j].index = i}
ProgressAt(p, i) == EventsAt(p, {"progress"}, i)
TerminalAt(p, i) == EventsAt(p, {"complete", "error"}, i)
FinishAt(p) == {j \in DOMAIN events[p] : events[p][j].event = "finish"}
CoverIndex(p) == loc[p].pages[loc[p].coverPage].index

\* C1: in every run of generateImages the cover's progress event and its
\* complete or error event precede every event of phase 'content', no event
\* of phase 'cover' follows one of phase 'content', and no provider call for
\* another page is made before the cover call has returned.
C1_CoverPrecedesContent ==
  \A p \in GenFlows :
    /\ \A j \in DOMAIN events[p] :
         events[p][j].phase = "content" =>
           /\ loc[p].coverPage # 0
           /\ \E a \in ProgressAt(p, CoverIndex(p)), b \in TerminalAt(p, CoverIndex(p)) :
                /\ a < b /\ b < j
                /\ events[p][a].phase = "cover" /\ events[p][b].phase = "cover"
           /\ \A i \in DOMAIN events[p] : i > j => events[p][i].phase # "cover"
    /\ \A k \in DOMAIN loc[p].pages :
         (k # loc[p].coverPage /\ gsi[p][k].calls > 0) =>
           (loc[p].coverPage # 0 /\ Returned(gsi[p][loc[p].coverPage]))

\* C1 witness: a run whose cover failed and that went on to emit content events
C1_Witness ==
  \E p \in GenFlows :
    /\ pc[p] = "done"
    /\ loc[p].coverPage # 0
    /\ gsi[p][loc[p].coverPage].st = "fail"
    /\ \E j \in DOMAIN events[p] : events[p][j].phase = "content" /\ events[p][j].event = "complete"

\* C2: the final status generateImages writes to the record is 'completed'
\* iff generated = submitted, 'partial' iff 0 < generated < submitted and
\* 'draft' iff generated = 0.
C2_FinalStatusByCount ==
  \A p \in GenFlows :
    (pc[p] = "done" /\ hasRecord(Store, loc[p].recordId)) =>
      LET g == Len(loc[p].generatedImages)
          n == Len(loc[p].pages)
          s == getRecord(Store, loc[p].recordId).status
      IN /\ (s = "completed") <=> (g = n)
         /\ (s = "partial") <=> (0 < g /\ g < n)
         /\ (s = "draft") <=> (g = 0)

\* C3: every submitted page gets exactly one progress event and, after it,
\* exactly one terminal event (complete or error); no page is left without.
C3_OneProgressOneTerminal ==
  \A p \in GenFlows : \A k \in DOMAIN loc[p].pages :
    LET i == loc[p].pages[k].index
    IN /\ Cardinality(ProgressAt(p, i)) <= 1
       /\ Cardinality(TerminalAt(p, i)) <= 1
       /\ \A t \in TerminalAt(p, i) : \E g \in ProgressAt(p, i) : g < t
       /\ pc[p] = "done" =>
            (Cardinality(ProgressAt(p, i)) = 1 /\ Cardinality(TerminalAt(p, i)) = 1)

\* C4: generateImages ends with exactly one finish event, its last event,
\* whose completed / failed / failed_indices are the pages that succeeded /
\* failed, with completed + failed = total; a failed page does not stop the
\* pages after it.
C4_FinishSummary ==
  \A p \in GenFlows :
    /\ Cardinality(FinishAt(p)) <= 1
    /\ pc[p] # "done" => FinishAt(p) = {}
    /\ pc[p] = "done" =>
         LET f == events[p][Len(events[p])]
             ok == {k \in DOMAIN loc[p].pages : gsi[p][k].st = "ok"}
             ko == {k \in DOMAIN loc[p].pages : gsi[p][k].st = "fail"}
         IN /\ FinishAt(p) = {Len(events[p])}
            /\ f.completed = Cardinality(ok)
            /\ f.failed = Cardinality(ko)
            /\ SeqToSet(f.failed_indices) = {loc[p].pages[k].index : k \in ko}
            /\ Len(f.failed_indices) = Cardinality(ko)
            /\ f.completed + f.failed = f.total
            /\ f.total = Len(loc[p].pages)
            /\ \A k \in DOMAIN loc[p].pages : Returned(gsi[p][k])

\* C8: one _generateSingleImage call invokes the provider at most
\* AUTO_RETRY_COUNT (3) times, waits 1 s then 2 s between attempts only, stops
\* at the first success, and after the third failure returns a failure
\* instead of throwing.
C8_BoundedRetry ==
  \A p \in Procs : \A k \in 1 .. MaxPages :
    LET call == gsi[p][k]
    IN /\ call.calls <= 3
       /\ call.waits \in {<<>>, <<1>>, <<1, 2>>}
       /\ call.st = "backoff" => (Len(call.waits) = call.calls /\ call.calls < 3)
       /\ call.st \in {"calling", "thumb", "ok"} => Len(call.waits) = call.calls - 1
       /\ call.st = "fail" => (call.calls = 3 /\ call.waits = <<1, 2>> /\ pc[p] # "thrown")

\* C8 witness: a call that failed three times, and a later page that
\* succeeded at its second attempt
C8_Witness ==
  \E p \in Procs : \E k, k2 \in 1 .. MaxPages :
    /\ gsi[p][k].st = "fail" /\ gsi[p][k].calls = 3
    /\ gsi[p][k2].st = "ok" /\ gsi[p][k2].calls = 2
    /\ k < k2 /\ pc[p] = "done"

C6_IndexMatchesDetail ==
  /\ \A id \in 1 .. (nextId - 1) : (FindPos(index, id, 1) # 0) <=> (id \in DOMAIN recordFiles)
  /\ \A i \in DOMAIN index :
       index[i].id \in DOMAIN recordFiles =>
         LET e == index[i]
             r == recordFiles[e.id]
         IN /\ e.status = r.status
            /\ e.thumbnail = r.thumbnail
            /\ e.page_count = Len(r.outline)
            /\ e.task_id = r.images.task_id
            /\ e.updated_at = r.updated_at

\* the file a task directory holds under a name (NoImage: no such file)
FileAt(t, name) ==
  IF t \in DOMAIN taskDirs /\ name \in DOMAIN taskDirs[t] THEN taskDirs[t][name] ELSE NoImage
Quiescent == \A p \in Procs : pc[p] \in {"idle", "done"}
\* the outline pages of a record that have an image in images.generated
PagesWithImage(r) == {k \in 0 .. (Len(r.outline) - 1) : Includes(r.images.generated, Png(k))}

\* C7: whenever no flow is in progress, a record's status is 'completed'
\* iff every outline page has an image in images.generated, 'partial' iff
\* some but not all pages have one, and 'draft' iff none has.
C7_StatusReflectsImages ==
  Quiescent =>
    \A id \in DOMAIN recordFiles :
      LET r == recordFiles[id]
          all == 0 .. (Len(r.outline) - 1)
      IN /\ (r.status = "completed") <=> (PagesWithImage(r) = all /\ all # {})
         /\ (r.status = "partial") <=> (PagesWithImage(r) # {} /\ PagesWithImage(r) # all)
         /\ (r.status = "draft") <=> (PagesWithImage(r) = {})

RetryFlows == {p \in Procs : loc[p].flow \in {"retry", "regenerate"} /\ pc[p] = "done"}
RetriedFile(p) == FileAt(loc[p].taskId, Png(loc[p].pages[1].index))

\* C10: after a /retry of a page that was recorded as generated
\* when the request arrived, {index}.png is the file it was before the
\* request; after a /regenerate whose provider call succeeded it is the
\* new image.
C10_RetryKeepsPriorSuccess ==
  \A p \in RetryFlows :
    /\ (loc[p].flow = "retry" /\ prior[p].generated) => RetriedFile(p) = prior[p].image
    /\ (loc[p].flow = "regenerate" /\ gsi[p][1].st = "ok") =>
         RetriedFile(p) = Image(loc[p].taskId, "regenerate")

\* C5: under every interleaving of flows of different tasks, every image
\* file (original or thumbnail) of a page of task T is in T's directory and
\* in no other, and the cover a flow of T read back as its style reference
\* (and cached in T's TaskState) is T's own cover.
C5_ImagesInOwnTaskDir ==
  /\ \A t \in DOMAIN taskDirs : \A name \in DOMAIN taskDirs[t] : taskDirs[t][name].task = t
  /\ \A p \in Procs : loc[p].coverImageData # NoImage =>
                        loc[p].coverImageData.task = loc[p].taskId
  /\ \A t \in DOMAIN taskStates : taskStates[t].cover_image # NoImage =>
                                    taskStates[t].cover_image.task = t

\* the reference image the retry of p is to pass, from the state the request
\* found: the TaskState's cached cover, else the compressed 0.png, else none
ExpectedReference(p) ==
  LET t == loc[p].taskId
      cover == IF loc[p].pages[1].index = 0 THEN prior[p].image ELSE FileAt(t, Png(0))
  IN IF ~loc[p].useReference THEN NoImage
     ELSE IF t \in DOMAIN taskStates /\ taskStates[t].cover_image # NoImage
          THEN taskStates[t].cover_image
          ELSE IF cover # NoImage THEN compressImage(cover) ELSE NoImage

DelimiterCount(text) == Cardinality({i \in DOMAIN text : text[i] \in Delimiters(text)})

\* C12: for an outline text with N page delimiters _parseOutline returns
\* exactly N pages, and their index fields are 0, 1, 2, ... in order of
\* appearance, also when segments are empty or whitespace-only.
C12_SequentialIndices ==
  /\ Len(outlinePages) = DelimiterCount(outlineText)
  /\ \A k \in DOMAIN outlinePages : outlinePages[k].index = k - 1

\* C13: the type of a page is the type mapped from its leading bracketed
\* label (cover, content, summary), 'content' when the label is absent or
\* not in the mapping, and its content is the trimmed segment.
C13_TypeFromLabel ==
  \A k \in DOMAIN outlinePages :
    LET seg == split(outlineText)[outlinePages[k].index + 1]
        t == trim(seg)
        labelled(w) == Len(t) >= 3 /\ t[1] = "[" /\ t[2] = w /\ t[3] = "]"
    IN /\ outlinePages[k].content = t
       /\ outlinePages[k].type =
            IF labelled(CoverLabel) THEN "cover"
            ELSE IF labelled(ContentLabel) THEN "content"
            ELSE IF labelled(SummaryLabel) THEN "summary"
            ELSE "content"

\* the ids a listRecords or searchRecords call can return
ListedIds ==
  UNION {{r.id : r \in SeqToSet(listRecords(Store, page, pageSize, status))} :
           page \in 1 .. 2, pageSize \in {1, 20}, status \in {Undef, "draft", "completed"}}
  \cup UNION {{r.id : r \in SeqToSet(searchRecords(Store, keyword))} :
                keyword \in {"", "t", "T", "x"}}

C15_CreateRoundTrip ==
  lastCall.op = "createRecord" =>
    /\ hasRecord(Store, lastCall.id)
    /\ LET r == getRecord(Store, lastCall.id)
       IN /\ r.title = lastCall.topic
          /\ r.outline = lastCall.outline
          /\ r.status = "draft"
          /\ r.images.generated = <<>>
          /\ r.images.task_id = IF lastCall.taskId \in TaskIds THEN lastCall.taskId ELSE Null
    /\ index[1].id = lastCall.id

\* C15 witness: a second record was created, with a task id and an outline
C15_Witness ==
  /\ lastCall.op = "createRecord"
  /\ lastCall.taskId = "t1"
  /\ lastCall.outline = <<"cover", "content">>
  /\ Len(index) = 2
  /\ index[1].id = lastCall.id

\* C16: after scanAndSyncTaskImages(taskId) on an existing directory named
\* by a record, the first such record in index order has images.generated =
\* the directory's non-thumbnail images in index order, the status that the
\* image count gives against the outline's page count, a thumbnail equal
\* to the first image, and no thumbnail naming a file that is not in the
\* directory.
C16_ScanSyncsRecord ==
  (lastCall.op = "scanAndSyncTaskImages" /\ lastCall.ok /\ ~lastCall.no_record) =>
    LET r == getRecord(Store, lastCall.id)
        dir == taskDirs[lastCall.taskId]
        files == imageFiles(dir)
    IN /\ lastCall.id = findRecordOfTask(Store, lastCall.taskId, 1)
       /\ \A f \in SeqToSet(files) : f \in SeqToSet(PngNames) /\ f \in DOMAIN dir
       /\ r.images.generated = files
       /\ r.status = IF Len(files) = 0 THEN "draft"
                     ELSE IF Len(files) >= Len(r.outline) THEN "completed" ELSE "partial"
       /\ Len(files) > 0 => r.thumbnail = files[1]
       /\ Truthy(r.thumbnail) => r.thumbnail \in DOMAIN dir

\* C17: scanAllTasks puts every directory of history/ in exactly one of
\* synced, failed and orphan_tasks, and a directory is in orphan_tasks
\* exactly when no record's images.task_id is its name.
C17_ScanAllClassifies ==
  lastCall.op = "scanAllTasks" =>
    /\ lastCall.total_tasks = Cardinality(lastCall.dirs)
    /\ lastCall.synced + lastCall.failed + Len(lastCall.orphan_tasks) = lastCall.total_tasks
    /\ Cardinality(SeqToSet(lastCall.orphan_tasks)) = Len(lastCall.orphan_tasks)
    /\ \A t \in lastCall.dirs :
         (t \in SeqToSet(lastCall.orphan_tasks))
           <=> ~\E id \in DOMAIN recordFiles : recordFiles[id].images.task_id = t

\* C17 witness: a scan of two directories, one synced with a record, one
\* orphan
C17_Witness ==
  /\ lastCall.op = "scanAllTasks"
  /\ lastCall.total_tasks = 2
  /\ lastCall.synced = 1
  /\ Len(lastCall.orphan_tasks) = 1

\* C18: in the streaming chat mode, when more than MAX_CHUNKS chunks arrive
\* and none carried finish_reason 'stop', the call is rejected with the
\* streaming-timeout error at chunk MAX_CHUNKS + 1 (not before) and a
\* settled call never changes its outcome; and when the stream has ended
\* without a stop marker the call is rejected, not pending.
C18_StreamTimeout ==
  /\ []((stream.chunkCount > MAX_CHUNKS /\ ~stream.stopCarried) =>
          (stream.promise = "rejected" /\ stream.reason = "timeout"))
  /\ []((stream.chunkCount <= MAX_CHUNKS) => stream.reason # "timeout")
  /\ []((stream.phase = "ended" /\ ~stream.stopCarried) => stream.promise = "rejected")
  /\ [][stream.promise \in {"rejected", "resolved"} =>
          (stream'.promise = stream.promise /\ stream'.reason = stream.reason)]_vars

\* C18 witness: chunk 201 arrived without any stop marker before it
C18_Witness ==
  /\ stream.chunkCount = MAX_CHUNKS + 1
  /\ ~stream.stopCarried
  /\ stream.promise = "rejected"
  /\ stream.reason = "timeout"

\* C19: an HTTP 429 answer makes retryOn429 invoke generateText again,
\* after waits of 1 s and 2 s, until 3 attempts were made, and only then
\* the error reaches the caller; any other error reaches the caller at the
\* attempt it occurs in, without a further attempt.
C19_RetryOn429 ==
  textCall.st = "thrown" =>
    LET n == Len(textCall.responses)
    IN /\ textCall.responses[n].status = 429 =>
            (n = maxRetries /\ textCall.waits = <<1, 2>>)
       /\ \A i \in 1 .. (n - 1) : textCall.responses[i].status = 429

\* the provider calls of a flow that are in flight
InFlight(p) == {k \in DOMAIN gsi[p] : gsi[p][k].st = "calling"}

\* C20: in high-concurrency mode no more than MAX_CONCURRENT provider calls
\* of a generateImages run are in flight at any time.
C20_AtMostMaxConcurrent ==
  highConcurrency =>
    \A p \in Procs : loc[p].flow = "generate" => Cardinality(InFlight(p)) <= MAX_CONCURRENT

\* the pages of a run whose image file _saveImage has written
SavedPages(p) == {k \in DOMAIN loc[p].pages : gsi[p][k].st \in {"thumb", "ok"}}
\* the flow is suspended at an await
Suspended(p) == pc[p] \notin {"idle", "done", "thrown"}

\* C21: at every await of a generateImages run with an associated record,
\* the record's images.generated holds the file name of every page of the
\* run whose image is already saved in the task directory, in sequential
\* and in high-concurrency mode.
C21_RecordListsSavedImages ==
  \A p \in GenFlows :
    (Suspended(p) /\ hasRecord(Store, loc[p].recordId)) =>
      \A k \in SavedPages(p) :
        Includes(getRecord(Store, loc[p].recordId).images.generated,
                 Png(loc[p].pages[k].index))

\* the index of the i-th content page of a run
OtherIndex(p, i) == loc[p].pages[loc[p].otherPages[i]].index

\* C22: in sequential mode the provider call of a content page starts only
\* after the complete or error event of the content page before it was
\* emitted, at most one provider call is in flight, and the terminal events
\* of the content pages appear in submission order.
C22_SequentialOrder ==
  ~highConcurrency =>
    \A p \in GenFlows :
      /\ Cardinality(InFlight(p)) <= 1
      /\ \A i, j \in DOMAIN loc[p].otherPages :
           i < j =>
             /\ gsi[p][loc[p].otherPages[j]].calls > 0 => TerminalAt(p, OtherIndex(p, i)) # {}
             /\ \A a \in TerminalAt(p, OtherIndex(p, i)), b \in TerminalAt(p, OtherIndex(p, j)) :
                  a < b

\* C22 witness: a sequential run of a cover and two content pages where the
\* first content page failed and the second was generated
C22_Witness ==
  /\ ~highConcurrency
  /\ \E p \in GenFlows :
       /\ pc[p] = "done"
       /\ Len(loc[p].otherPages) = 2
       /\ gsi[p][loc[p].otherPages[1]].st = "fail"
       /\ gsi[p][loc[p].otherPages[2]].st = "ok"
       /\ \E a \in TerminalAt(p, OtherIndex(p, 1)), b \in TerminalAt(p, OtherIndex(p, 2)) :
            a < b /\ events[p][a].event = "error" /\ events[p][b].event = "complete"

ConfigKinds == {"text_generation", "image_generation"}
ProviderNames == {"google_genai", "openai", "google_gemini"}
StoredKey(files, kind, name) ==
  IF kind \in DOMAIN files /\ name \in DOMAIN files[kind].providers
  THEN files[kind].providers[name].api_key ELSE <<Undef>>
\* some POST /config body with a non-empty api_key for the provider is the step
SubmitsKey(kind, name) ==
  \E section \in Sections(ProviderNames) :
    /\ section.hasProviders
    /\ name \in DOMAIN section.providers
    /\ TruthyValue(section.providers[name].api_key)
    /\ PostConfig([k \in {kind} |-> section])
RoundTrip ==
  /\ configResponse # EmptyMap
  /\ PostConfig([k \in DOMAIN configResponse |->
                  [active_provider |-> configResponse[k].active_provider,
                   hasProviders |-> TRUE,
                   providers |-> configResponse[k].providers]])
\* GET /config shows no stored key: api_key is '' and api_key_masked is the mask
ResponseHidesKeys ==
  configResponse # EmptyMap =>
    \A kind \in ConfigKinds : \A name \in DOMAIN configResponse[kind].providers :
      LET shown == configResponse[kind].providers[name]
          key == StoredKey(configFiles, kind, name)
      IN /\ shown.api_key = <<>>
         /\ shown.api_key_masked = maskApiKey(key)
         /\ TruthyValue(key) => shown.api_key_masked # key
\* an empty api_key for a configured provider: the file written keeps its key
EmptyKeyKeeps ==
  \A kind \in ConfigKinds, section \in Sections(ProviderNames) :
    \A name \in DOMAIN section.providers :
      (TruthyValue(StoredKey(configFiles, kind, name)) /\ section.providers[name].api_key = <<>>)
      => StoredKey(WriteConfig(configFiles, kind, section), kind, name)
           = StoredKey(configFiles, kind, name)

C24_NoEmptySuccess ==
  outlineSuccess = "true" => Len(outlinePages) > 0

MissingCredentials ==
  /\ generator.provider \in DOMAIN GENERATORS
  /\ \/ ~TruthyValue(generator.api_key)
     \/ /\ GENERATORS[generator.provider] \in {"OpenAICompatibleGenerator", "ImageApiGenerator"}
        /\ ~TruthyValue(generator.base_url)

\* C25: ImageGeneratorFactory.create of any variant with a missing API key,
\* or for the two HTTP variants a missing base URL, throws in the constructor,
\* before any generateImage call.
C25_FailsAtConstruction ==
  MissingCredentials => generator.thrown = "constructor"

\* C26: writes to one record from overlapping flows are not serialized: the
\* last write of a generateImages run leaves images.generated equal to the
\* run's own list, whatever a regenerate of the same record wrote meanwhile
\* (the state of C26_Witness, with the regenerated file missing, is reachable).
C26_LastWriteWins ==
  [][\A p \in Procs :
       (/\ loc[p].flow = "generate" /\ loc[p].recordId # NoRec
        /\ pc[p] \notin {"idle", "done", "thrown"} /\ pc'[p] = "done"
        /\ hasRecord(Store', loc[p].recordId))
       => getRecord(Store', loc[p].recordId).images.generated = loc'[p].generatedImages]_vars

\* both flows are over; the regenerate succeeded and wrote its file into
\* the record; the record no longer lists it
C26_Witness ==
  /\ pc[1] = "done" /\ loc[1].flow = "generate"
  /\ pc[2] = "done" /\ loc[2].flow = "regenerate" /\ loc[2].recordId = loc[1].recordId
  /\ loc[1].recordId # NoRec
  /\ events[2] # <<>>
  /\ events[2][Len(events[2])].event = "finish"
  /\ events[2][Len(events[2])].success
  /\ hasRecord(Store, loc[1].recordId)
  /\ ~Includes(getRecord(Store, loc[1].recordId).images.generated,
               Png(loc[2].pages[1].index))

\* C28: once a task has a TaskState, no request removes it: a task that has
\* one before a step has one after it.
C28_TaskStateKept ==
  [][\A t \in DOMAIN taskStates : t \in DOMAIN taskStates']_vars

RetryFailedFlows == {p \in Procs : loc[p].flow = "retryFailed"}
EventCount(p, name) == Cardinality({j \in DOMAIN events[p] : events[p][j].event = name})

\* C27: retryFailedImages takes the pages one at a time in the given order:
\* the events are, page by page, retry_start and then one retry_finish or
\* error of that page, and after the last page one finish event with
\* completed + failed = number of pages and success exactly when failed = 0.
C27_RetryFailedEvents ==
  \A p \in RetryFailedFlows :
    LET ev == events[p]
        pages == loc[p].pages
        n == Len(pages)
    IN /\ Cardinality(InFlight(p)) <= 1
       /\ Len(ev) <= 2 * n + 1
       /\ pc[p] = "done" => Len(ev) = 2 * n + 1
       /\ \A j \in DOMAIN ev :
            IF j = 2 * n + 1
            THEN /\ ev[j].event = "finish"
                 /\ ev[j].completed = EventCount(p, "retry_finish")
                 /\ ev[j].failed = EventCount(p, "error")
                 /\ ev[j].completed + ev[j].failed = n
                 /\ ev[j].success = (ev[j].failed = 0)
            ELSE IF j % 2 = 1
            THEN ev[j].event = "retry_start" /\ ev[j].index = pages[(j + 1) \div 2].index
            ELSE ev[j].event \in {"retry_finish", "error"} /\ ev[j].index = pages[j \div 2].index

\* a finished retry of two pages, one regenerated and one failed again
C27_Witness ==
  \E p \in RetryFailedFlows :
    /\ pc[p] = "done"
    /\ Len(loc[p].pages) = 2
    /\ EventCount(p, "retry_finish") = 1
    /\ EventCount(p, "error") = 1
    /\ events[p][Len(events[p])].event = "finish"
    /\ ~events[p][Len(events[p])].success

\* C29: in every TaskState no page index is in both the generated map and
\* the failed map.
C29_GeneratedFailedDisjoint ==
  \A t \in DOMAIN taskStates :
    DOMAIN taskStates[t].generated \cap DOMAIN taskStates[t].failed = {}

\* C30: the response of every streaming request is ended: once the event
\* generator of a request is over, by its finish event or by a throw, the
\* route has called res.end() (or has answered with a JSON error before any
\* event was written).
C30_ResponseEnded ==
  \A p \in Procs :
    pc[p] \in {"done", "thrown"} => res[p] \in {"ended", "json"}

=============================================================================
